---- MODULE Spec2Model ----
(***************************************************************************)
(* State-machine model of httpcloak's session state:                       *)
(*   - the cookie jar (session.CookieJar)                                  *)
(*   - the persistable TLS session cache                                   *)
(*     (transport.PersistableSessionCache)                                 *)
(*   - the page warmup (session.Session.Warmup) with its goroutines        *)
(* Strings are sequences of one-character strings, so that the string      *)
(* operations of the code (ToLower, LastIndex, HasPrefix, HasSuffix,       *)
(* slicing) are computed and not assumed.  Times are integers.             *)
(***************************************************************************)
EXTENDS Integers, Sequences, FiniteSets, TLC

VARIABLES
    cookies,      \* CookieJar.cookies : domain -> (cookieKey -> CookieData)
    now,          \* the wall clock read by time.Now()
    jarCall,      \* the most recent call made on the jar (operation and arguments)
    sessions,     \* PersistableSessionCache.sessions : key -> cachedSession
    accessOrder,  \* PersistableSessionCache.accessOrder (oldest at front)
    tlsCall,      \* the most recent call made on the TLS cache
    recency,      \* history: the cached keys by their last use, oldest first
    warmPc,       \* Warmup: where the calling goroutine stands
    warmCall,     \* Warmup: the page served and the outcome of the navigation
    warmRet,      \* Warmup: the value returned (Nil while it has not returned)
    batches,      \* Warmup: batches, the three slices of subresources
    batchIdx,     \* Warmup: i of the loop over batches, counted from 1
    resIdx,       \* fetchBatch: position of the loop over batch, counted from 1
    ctxDone,      \* whether the context passed to Warmup is cancelled
    sem,          \* fetchBatch: number of tokens in the channel sem
    wg,           \* fetchBatch: counter of the WaitGroup
    goroutines,   \* fetchBatch: <<batch, position>> -> state of the goroutine started for it
    clock,        \* milliseconds since Warmup was called
    ticks,        \* the number of times the clock advanced while requests were in flight
    firstRequestAt, \* history: clock at the first subresource request (Nil before)
    planIn,       \* planning: the navigation response handed to discovery
    planRuns,     \* planning: the plans computed from planIn, one per run
    threads,      \* locking: thread -> the call it makes on the jar and where it stands
    mu,           \* CookieJar.mu : the writer holding it and the readers holding it
    committed,    \* history: the jar as the last completed write left it
    fastResponses,   \* fast bindings: the table fastResponses, handle -> response
    fastResponseID,  \* fast bindings: the counter fastResponseID
    fastResponsesMu, \* fast bindings: the writer and the readers holding fastResponsesMu
    heap,            \* C heap: pointer -> the number of times it was handed to free
    callers,         \* fast bindings: caller -> the call it makes and where it stands
    issued,          \* history: the handles assigned, in the order of assignment
    fastCall         \* fast bindings: the most recent call that returned

warmVars == <<warmPc, warmCall, warmRet, batches, batchIdx, resIdx, ctxDone, sem, wg,
              goroutines, clock, ticks, firstRequestAt>>
planVars == <<planIn, planRuns>>
lockVars == <<threads, mu, committed>>
fastVars == <<fastResponses, fastResponseID, fastResponsesMu, heap, callers, issued, fastCall>>
vars == <<cookies, now, jarCall, sessions, accessOrder, tlsCall, recency, warmVars,
          planVars, lockVars, fastVars>>
jarVars == <<cookies, jarCall>>
tlsVars == <<sessions, accessOrder, tlsCall, recency>>

\* Warmup has not been called
WarmIdle ==
    /\ warmPc = "idle"
    /\ warmCall = << >>
    /\ warmRet = << >>
    /\ batches = << >>
    /\ batchIdx = 0
    /\ resIdx = 0
    /\ ctxDone = FALSE
    /\ sem = 0
    /\ wg = 0
    /\ goroutines = << >>
    /\ clock = 0
    /\ ticks = 0
    /\ firstRequestAt = << >>

\* no page has been handed to discovery
PlanIdle ==
    /\ planIn = << >>
    /\ planRuns = << >>

\* no call is made on the fast bindings
FastIdle ==
    /\ fastResponses = << >>
    /\ fastResponseID = 0
    /\ fastResponsesMu = [w |-> 0, r |-> {}]
    /\ heap = << >>
    /\ callers = << >>
    /\ issued = << >>
    /\ fastCall = << >>

\* no thread calls the jar
LockIdle ==
    /\ threads = << >>
    /\ mu = [w |-> 0, r |-> {}]
    /\ committed = << >>

(***************************************************************************)
(* Bounds                                                                  *)
(***************************************************************************)
MaxCookies == 2      \* the jar is not grown beyond this many cookies

(***************************************************************************)
(* Strings                                                                 *)
(***************************************************************************)
Nil == << >>                       \* a nil pointer; <<v>> is a pointer to v
EmptyStr == << >>                  \* the empty string ""

UpperLetters == <<"A", "E", "O", "T", "X">>
LowerLetters == <<"a", "e", "o", "t", "x">>

\* unicode.ToLower on one character of the model's alphabet
LowerChar(ch) ==
    IF \E i \in 1..Len(UpperLetters) : UpperLetters[i] = ch
    THEN LowerLetters[CHOOSE i \in 1..Len(UpperLetters) : UpperLetters[i] = ch]
    ELSE ch

ToLower(s) == [i \in 1..Len(s) |-> LowerChar(s[i])]

Contains(s, ch) == \E i \in 1..Len(s) : s[i] = ch

\* strings.Index / strings.LastIndex for a one-character needle, as Go's
\* 0-based index; -1 when absent
Index(s, ch) ==
    IF Contains(s, ch)
    THEN (CHOOSE i \in 1..Len(s) : s[i] = ch /\ \A k \in 1..(i-1) : s[k] # ch) - 1
    ELSE -1

LastIndex(s, ch) ==
    IF Contains(s, ch)
    THEN (CHOOSE i \in 1..Len(s) : s[i] = ch /\ \A k \in (i+1)..Len(s) : s[k] # ch) - 1
    ELSE -1

HasPrefix(s, p) == Len(p) <= Len(s) /\ SubSeq(s, 1, Len(p)) = p

HasSuffix(s, p) == Len(p) <= Len(s) /\ SubSeq(s, Len(s) - Len(p) + 1, Len(s)) = p

TrimPrefix(s, p) == IF HasPrefix(s, p) THEN SubSeq(s, Len(p) + 1, Len(s)) ELSE s

\* the host normalisation as it would be without the test for "]"
NormalizeHost_CutsAtLastColon(requestHost) ==
    LET h == ToLower(requestHost)
        idx == LastIndex(h, ":")
    IN  IF idx # -1 THEN SubSeq(h, 1, idx) ELSE h

\* the host normalisation at the top of Set and of Get: lower-case, then cut
\* a trailing ":port" unless the last colon lies inside an IPv6 bracket
NormalizeHost(requestHost) ==
    LET h == ToLower(requestHost)
        idx == LastIndex(h, ":")
    IN  IF idx # -1 /\ (~Contains(h, "]") \/ idx > Index(h, "]"))
        THEN SubSeq(h, 1, idx)
        ELSE h

\* cookieKey as it would be if the name were left out of the key
cookieKey_PathOnly(path, name) == path

\* cookieKey(path, name) = path + "\x00" + name
cookieKey(path, name) == path \o <<"NUL">> \o name

\* isDomainMatch as it would be with a suffix test that forgets the dot
isDomainMatch_NoDotBoundary(host, domain) ==
    \/ host = domain
    \/ HasSuffix(host, domain)

\* isDomainMatch: host equals domain or is a subdomain of it
isDomainMatch(host, domain) ==
    \/ host = domain
    \/ HasSuffix(host, <<".">> \o domain)

\* isPathMatch as it would be with a bare prefix test
isPathMatch_PrefixOnly(requestPath, cookiePath) ==
    \/ requestPath = cookiePath
    \/ HasPrefix(requestPath, cookiePath)

\* isPathMatch: request path matches cookie path
isPathMatch(requestPath, cookiePath) ==
    \/ requestPath = cookiePath
    \/ /\ HasPrefix(requestPath, cookiePath)
       /\ \/ HasSuffix(cookiePath, <<"/">>)
          \/ /\ Len(requestPath) > Len(cookiePath)
             /\ requestPath[Len(cookiePath) + 1] = "/"

\* domainMatchesHost as it would be if subdomains were matched against the
\* domain without its leading dot
domainMatchesHost_NoDotBoundary(cookieDomain, requestHost) ==
    \/ cookieDomain = EmptyStr
    \/ cookieDomain = requestHost
    \/ /\ HasPrefix(cookieDomain, <<".">>)
       /\ HasSuffix(requestHost, SubSeq(cookieDomain, 2, Len(cookieDomain)))

\* CookieJar.domainMatchesHost
domainMatchesHost(cookieDomain, requestHost) ==
    \/ cookieDomain = EmptyStr
    \/ cookieDomain = requestHost
    \/ /\ HasPrefix(cookieDomain, <<".">>)
       /\ \/ requestHost = SubSeq(cookieDomain, 2, Len(cookieDomain))
          \/ HasSuffix(requestHost, cookieDomain)

\* t.Before(u) on a *time.Time field: a nil expiry never expires
Expired(expires, t) == expires # Nil /\ expires[1] < t


(***************************************************************************)
(* Cookie jar: data                                                        *)
(***************************************************************************)
\* NewCookieJar: no buckets
EmptyJar == << >>

\* the references (domain bucket, key) of all stored cookies
JarRefs(jar) == UNION {{<<d, k>> : k \in DOMAIN jar[d]} : d \in DOMAIN jar}

\* CookieJar.Count
Count(jar) == Cardinality(JarRefs(jar))

\* j.cookies[domain][key] = c, creating the bucket when it is missing
JarPut(jar, domain, key, c) ==
    LET old == IF domain \in DOMAIN jar THEN jar[domain] ELSE << >>
        bucket == [k \in (DOMAIN old) \cup {key} |-> IF k = key THEN c ELSE old[k]]
    IN  [d \in (DOMAIN jar) \cup {domain} |-> IF d = domain THEN bucket ELSE jar[d]]

\* if j.cookies[domain] == nil { j.cookies[domain] = make(...) }
JarTouch(jar, domain) ==
    [d \in (DOMAIN jar) \cup {domain} |-> IF d \in DOMAIN jar THEN jar[d] ELSE << >>]

(***************************************************************************)
(* Cookie jar: operations as functions of the jar                          *)
(***************************************************************************)
\* Set as it would be if the Path attribute were stored as it was received
SetPath_AsGiven(cookie) == cookie.Path

\* Set, "Default path if not specified"
SetPath(cookie) ==
    IF cookie.Path = EmptyStr \/ cookie.Path[1] # "/" THEN <<"/">> ELSE cookie.Path

\* Set, "Create the stored cookie"
StoredCookie(cookie, domain, hostOnly, t) ==
    [Name |-> cookie.Name, Value |-> cookie.Value,
     Domain |-> domain, HostOnly |-> hostOnly, Path |-> SetPath(cookie),
     Expires |-> cookie.Expires, MaxAge |-> cookie.MaxAge,
     Secure |-> cookie.Secure, HttpOnly |-> cookie.HttpOnly,
     SameSite |-> cookie.SameSite, CreatedAt |-> t]

\* Set as it would be if a header without Domain attribute were filed as a
\* domain cookie of the request host
SetResult_AlwaysDomainCookie(jar, requestHost, cookie, requestSecure, t) ==
    LET host == NormalizeHost(requestHost)
        domainWithoutDot == IF cookie.Domain = EmptyStr THEN host
                            ELSE TrimPrefix(ToLower(cookie.Domain), <<".">>)
        domain == <<".">> \o domainWithoutDot
    IN  IF ~isDomainMatch(host, domainWithoutDot)
        THEN jar
        ELSE IF cookie.Secure /\ ~requestSecure
        THEN jar
        ELSE JarPut(jar, domain, cookieKey(SetPath(cookie), cookie.Name),
                    StoredCookie(cookie, domain, FALSE, t))

\* Set as it would be without the "Secure cookies can only be set over HTTPS" test
SetResult_NoSecureCheck(jar, requestHost, cookie, requestSecure, t) ==
    LET host == NormalizeHost(requestHost)
        hostOnly == cookie.Domain = EmptyStr
        domainWithoutDot == TrimPrefix(ToLower(cookie.Domain), <<".">>)
        domain == IF hostOnly THEN host ELSE <<".">> \o domainWithoutDot
    IN  IF ~hostOnly /\ ~isDomainMatch(host, domainWithoutDot)
        THEN jar
        ELSE JarPut(jar, domain, cookieKey(SetPath(cookie), cookie.Name),
                    StoredCookie(cookie, domain, hostOnly, t))

\* CookieJar.Set: the jar after Set(requestHost, cookie, requestSecure) at time t
SetResult(jar, requestHost, cookie, requestSecure, t) ==
    LET host == NormalizeHost(requestHost)
        hostOnly == cookie.Domain = EmptyStr
        domainWithoutDot == TrimPrefix(ToLower(cookie.Domain), <<".">>)
        domain == IF hostOnly THEN host ELSE <<".">> \o domainWithoutDot
    IN  IF ~hostOnly /\ ~isDomainMatch(host, domainWithoutDot)
        THEN jar
        ELSE IF cookie.Secure /\ ~requestSecure
        THEN jar
        ELSE JarPut(jar, domain, cookieKey(SetPath(cookie), cookie.Name),
                    StoredCookie(cookie, domain, hostOnly, t))

\* the body of Get's inner loop: is the cookie at (domain, key) sent?
GetAdmits(jar, domain, key, host, requestPath, requestSecure, t) ==
    LET cookie == jar[domain][key]
    IN  /\ domainMatchesHost(domain, host)
        /\ ~(cookie.HostOnly /\ domain # host)
        /\ isPathMatch(requestPath, cookie.Path)
        /\ ~(cookie.Secure /\ ~requestSecure)
        /\ ~Expired(cookie.Expires, t)

\* CookieJar.Get: the references of the cookies returned, before the sort
GetMatches(jar, requestHost, requestPath, requestSecure, t) ==
    LET host == NormalizeHost(requestHost)
        path == IF requestPath = EmptyStr THEN <<"/">> ELSE requestPath
    IN  {r \in JarRefs(jar) : GetAdmits(jar, r[1], r[2], host, path, requestSecure, t)}

\* CookieJar.SetSimple
SetSimpleResult(jar, name, value, t) ==
    JarPut(jar, EmptyStr, cookieKey(<<"/">>, name),
           [Name |-> name, Value |-> value, Domain |-> EmptyStr,
            HostOnly |-> FALSE, Path |-> <<"/">>, Expires |-> Nil, MaxAge |-> 0,
            Secure |-> FALSE, HttpOnly |-> FALSE, SameSite |-> EmptyStr,
            CreatedAt |-> t])

\* ClearExpired as it would be without the deletion of emptied buckets
ClearExpiredResult_KeepsEmptyBuckets(jar, t) ==
    LET kept(d) == {k \in DOMAIN jar[d] : ~Expired(jar[d][k].Expires, t)}
    IN  [d \in DOMAIN jar |-> [k \in kept(d) |-> jar[d][k]]]

\* CookieJar.ClearExpired
ClearExpiredResult(jar, t) ==
    LET kept(d) == {k \in DOMAIN jar[d] : ~Expired(jar[d][k].Expires, t)}
    IN  [d \in {x \in DOMAIN jar : kept(x) # {}} |-> [k \in kept(d) |-> jar[d][k]]]

\* the CookieState written by Export for a stored cookie
ToCookieState(c) ==
    [Name |-> c.Name, Value |-> c.Value, Domain |-> c.Domain, Path |-> c.Path,
     Expires |-> c.Expires, MaxAge |-> c.MaxAge, Secure |-> c.Secure,
     HttpOnly |-> c.HttpOnly, SameSite |-> c.SameSite, CreatedAt |-> <<c.CreatedAt>>]

\* all orders in which a range over a Go map may visit the keys in S
Orders(S) == {f \in [1..Cardinality(S) -> S] : \A i, k \in 1..Cardinality(S) : f[i] = f[k] => i = k}

\* CookieJar.Export: the possible results (the order inside a bucket's list
\* is the map's iteration order)
Exports(jar, t) ==
    LET live(d) == {k \in DOMAIN jar[d] : ~Expired(jar[d][k].Expires, t)}
        doms == {d \in DOMAIN jar : live(d) # {}}
        lists(d) == {[i \in 1..Cardinality(live(d)) |-> ToCookieState(jar[d][o[i]])] : o \in Orders(live(d))}
    IN  {e \in [doms -> UNION {lists(d) : d \in doms}] : \A d \in doms : e[d] \in lists(d)}

\* one iteration of Import's inner loop: CookieState c of bucket domain
ImportOne(jar, domain, c, t) ==
    LET path == IF c.Path = EmptyStr THEN <<"/">> ELSE c.Path
        hostOnly == ~HasPrefix(c.Domain, <<".">>)
        createdAt == IF c.CreatedAt # Nil THEN c.CreatedAt[1] ELSE t
    IN  IF Expired(c.Expires, t)
        THEN jar
        ELSE JarPut(jar, domain, cookieKey(path, c.Name),
                    [Name |-> c.Name, Value |-> c.Value, Domain |-> c.Domain,
                     HostOnly |-> hostOnly, Path |-> path, Expires |-> c.Expires,
                     MaxAge |-> c.MaxAge, Secure |-> c.Secure, HttpOnly |-> c.HttpOnly,
                     SameSite |-> c.SameSite, CreatedAt |-> createdAt])

RECURSIVE ImportList(_, _, _, _)
\* Import's inner loop over one bucket's list
ImportList(jar, domain, list, t) ==
    IF list = << >> THEN jar
    ELSE ImportList(ImportOne(jar, domain, Head(list), t), domain, Tail(list), t)

RECURSIVE ImportDomains(_, _, _, _)
\* Import's outer loop; buckets are disjoint, so the visiting order of the
\* domains does not show in the result
ImportDomains(jar, snapshot, doms, t) ==
    IF doms = {} THEN jar
    ELSE LET d == CHOOSE x \in doms : TRUE
         IN  ImportDomains(ImportList(JarTouch(jar, d), d, snapshot[d], t),
                           snapshot, doms \ {d}, t)

\* CookieJar.Import (v5, domain-keyed)
ImportResult(jar, snapshot, t) == ImportDomains(jar, snapshot, DOMAIN snapshot, t)

\* one iteration of ImportV4's loop
ImportV4One(jar, c, t) ==
    LET domain == IF c.Domain = EmptyStr THEN EmptyStr ELSE ToLower(c.Domain)
        hostOnly == c.Domain # EmptyStr /\ ~HasPrefix(domain, <<".">>)
        path == IF c.Path = EmptyStr THEN <<"/">> ELSE c.Path
    IN  IF Expired(c.Expires, t)
        THEN jar
        ELSE JarPut(jar, domain, cookieKey(path, c.Name),
                    [Name |-> c.Name, Value |-> c.Value, Domain |-> domain,
                     HostOnly |-> hostOnly, Path |-> path, Expires |-> c.Expires,
                     MaxAge |-> c.MaxAge, Secure |-> c.Secure, HttpOnly |-> c.HttpOnly,
                     SameSite |-> c.SameSite, CreatedAt |-> t])

RECURSIVE ImportV4Result(_, _, _)
\* CookieJar.ImportV4 (flat list)
ImportV4Result(jar, list, t) ==
    IF list = << >> THEN jar
    ELSE ImportV4Result(ImportV4One(jar, Head(list), t), Tail(list), t)


(***************************************************************************)
(* Cookie jar: inputs                                                      *)
(***************************************************************************)
\* a Set-Cookie header as Set receives it
Cookie(name, value, domain, path, expires, secure) ==
    [Name |-> name, Value |-> value, Domain |-> domain, Path |-> path,
     Expires |-> expires, MaxAge |-> 0, Secure |-> secure,
     HttpOnly |-> FALSE, SameSite |-> EmptyStr]

\* the variants of the cookie a=1 with Domain attribute d: plain, Path=/a,
\* Secure, expired (Expires = 0 < now), expiring later (Expires = 1 = now)
Variants(d) ==
    {Cookie(<<"a">>, <<"1">>, d, EmptyStr, Nil, FALSE),
     Cookie(<<"a">>, <<"1">>, d, <<"/", "a">>, Nil, FALSE),
     Cookie(<<"a">>, <<"1">>, d, EmptyStr, Nil, TRUE),
     Cookie(<<"a">>, <<"1">>, d, EmptyStr, <<0>>, FALSE),
     Cookie(<<"a">>, <<"1">>, d, EmptyStr, <<1>>, FALSE)}

\* the Set-Cookie headers offered to Set: no Domain attribute, Domain=e.t,
\* and Domain=.E.t (leading dot, upper case)
CookieInputs ==
    Variants(EmptyStr) \cup Variants(<<"e", ".", "t">>)
    \cup {Cookie(<<"a">>, <<"2">>, EmptyStr, EmptyStr, Nil, FALSE),
          Cookie(<<"a">>, <<"1">>, <<".", "E", ".", "t">>, EmptyStr, Nil, FALSE),
          Cookie(<<"a">>, <<"1">>, <<".", "E", ".", "t">>, EmptyStr, Nil, TRUE)}

\* the calls offered to Set: every header over plain HTTP, and the Secure
\* ones over HTTPS as well; from e.t every header, from the subdomain
\* A.e.t:8 and from xe.t (no dot boundary before "e.t") the headers with a
\* Domain attribute and the plain host-only cookie
SetInputs ==
    LET from(hosts, cs) == {in \in hosts \X cs \X BOOLEAN : in[3] => in[2].Secure}
    IN  from({<<"e", ".", "t">>}, CookieInputs)
        \cup from({<<"A", ".", "e", ".", "t", ":", "8">>, <<"x", "e", ".", "t">>},
                  {c \in CookieInputs : c.Domain # EmptyStr}
                  \cup {Cookie(<<"a">>, <<"1">>, EmptyStr, EmptyStr, Nil, FALSE)})

\* the requests Get is asked about.  Hosts: "e.t", "a.e.t", "E.T:9", "xe.t", "t"
ReqHosts == {<<"e", ".", "t">>, <<"a", ".", "e", ".", "t">>,
             <<"E", ".", "T", ":", "9">>, <<"x", "e", ".", "t">>, <<"t">>}

\* paths: "", "/a", "/a/", "/ab", "/b"
ReqPaths == {EmptyStr, <<"/", "a">>, <<"/", "a", "/">>, <<"/", "a", "b">>, <<"/", "b">>}

\* the requests made through the Get action: "e.t", "a.e.t", "xe.t"; "/a", "/b"
GetHosts == {<<"e", ".", "t">>, <<"a", ".", "e", ".", "t">>, <<"x", "e", ".", "t">>}
GetPaths == {<<"/", "a">>, <<"/", "b">>}

\* a serialized cookie as Import and ImportV4 receive it
State(name, value, domain, path) ==
    [Name |-> name, Value |-> value, Domain |-> domain, Path |-> path,
     Expires |-> Nil, MaxAge |-> 0, Secure |-> FALSE, HttpOnly |-> FALSE,
     SameSite |-> EmptyStr, CreatedAt |-> Nil]

\* v5 snapshots offered to Import in SpecJar: a host-only and a domain cookie
V5Few == {[d \in {<<"e", ".", "t">>} |-> <<State(<<"a">>, <<"2">>, <<"e", ".", "t">>, EmptyStr)>>],
          [d \in {<<".", "e", ".", "t">>} |-> <<State(<<"a">>, <<"2">>, <<".", "e", ".", "t">>, <<"/", "a">>)>>]}

\* v4 snapshots offered to ImportV4 in SpecJar
V4Few == {<<State(<<"a">>, <<"2">>, <<"E", ".", "t">>, EmptyStr)>>,
          <<State(<<"a">>, <<"2">>, <<"e", ".", "t">>, <<"/", "a">>)>>,
          <<State(<<"a">>, <<"2">>, EmptyStr, EmptyStr)>>}

(***************************************************************************)
(* Cookie jar: actions                                                     *)
(***************************************************************************)
JarCall(op, args) == [op |-> op, args |-> args]

JarInit ==
    /\ cookies = EmptyJar
    /\ now = 1
    /\ jarCall = JarCall("NewCookieJar", << >>)

\* Set(requestHost, cookie, requestSecure); the call record keeps by how
\* much Count has grown
JarSet(requestHost, cookie, requestSecure) ==
    LET r == SetResult(cookies, requestHost, cookie, requestSecure, now)
    IN  /\ Count(r) <= MaxCookies
        /\ cookies' = r
        /\ jarCall' = JarCall("Set", <<requestHost, cookie, requestSecure,
                                      Count(r) - Count(cookies)>>)
        /\ UNCHANGED <<now, tlsVars, warmVars, planVars, lockVars, fastVars>>

\* SetSimple(name, value)
JarSetSimple(name, value) ==
    LET r == SetSimpleResult(cookies, name, value, now)
    IN  /\ Count(r) <= MaxCookies
        /\ cookies' = r
        /\ jarCall' = JarCall("SetSimple", <<name, value>>)
        /\ UNCHANGED <<now, tlsVars, warmVars, planVars, lockVars, fastVars>>

\* Get(requestHost, requestPath, requestSecure): the jar is only read; the
\* call record keeps what was returned
JarGet(requestHost, requestPath, requestSecure) ==
    /\ jarCall' = JarCall("Get", <<GetMatches(cookies, requestHost, requestPath, requestSecure, now)>>)
    /\ UNCHANGED <<cookies, now, tlsVars, warmVars, planVars, lockVars, fastVars>>

\* Clear()
JarClear ==
    /\ cookies' = EmptyJar
    /\ jarCall' = JarCall("Clear", << >>)
    /\ UNCHANGED <<now, tlsVars, warmVars, planVars, lockVars, fastVars>>

\* ClearExpired(); the call record keeps the number of cookies deleted
JarClearExpired ==
    /\ cookies' = ClearExpiredResult(cookies, now)
    /\ jarCall' = JarCall("ClearExpired",
                          <<Count(cookies) - Count(ClearExpiredResult(cookies, now))>>)
    /\ UNCHANGED <<now, tlsVars, warmVars, planVars, lockVars, fastVars>>

\* Export(): the jar is only read; the call record keeps the snapshot
JarExport ==
    /\ \E e \in Exports(cookies, now) : jarCall' = JarCall("Export", <<e>>)
    /\ UNCHANGED <<cookies, now, tlsVars, warmVars, planVars, lockVars, fastVars>>

\* Import(snapshot)
JarImport(snapshot) ==
    LET r == ImportResult(cookies, snapshot, now)
    IN  /\ Count(r) <= MaxCookies
        /\ cookies' = r
        /\ jarCall' = JarCall("Import", <<snapshot>>)
        /\ UNCHANGED <<now, tlsVars, warmVars, planVars, lockVars, fastVars>>

\* ImportV4(list)
JarImportV4(list) ==
    LET r == ImportV4Result(cookies, list, now)
    IN  /\ Count(r) <= MaxCookies
        /\ cookies' = r
        /\ jarCall' = JarCall("ImportV4", <<list>>)
        /\ UNCHANGED <<now, tlsVars, warmVars, planVars, lockVars, fastVars>>

JarNext ==
    \/ \E in \in SetInputs : JarSet(in[1], in[2], in[3])
    \/ JarSetSimple(<<"a">>, <<"1">>)
    \/ \E h \in GetHosts, p \in GetPaths, s \in BOOLEAN : JarGet(h, p, s)
    \/ JarClear
    \/ JarClearExpired
    \/ JarExport
    \/ \E snap \in V5Few : JarImport(snap)
    \/ \E l \in V4Few : JarImportV4(l)

\* the TLS cache is idle while the jar is exercised
SpecJarInit ==
    /\ JarInit
    /\ sessions = << >>
    /\ accessOrder = << >>
    /\ tlsCall = << >>
    /\ recency = << >>
    /\ WarmIdle
    /\ PlanIdle
    /\ FastIdle
    /\ LockIdle

SpecJar == SpecJarInit /\ [][JarNext]_vars


(***************************************************************************)
(* Cookie jar: properties                                                  *)
(***************************************************************************)
\* the vocabulary of the cookie rules, independent of the jar's helpers
IsSubdomainOf(host, d) == \E n \in 1..Len(host) : SubSeq(host, n, Len(host)) = <<".">> \o d
IsHostOrSubdomainOf(host, d) == host = d \/ IsSubdomainOf(host, d)
IsPrefixOf(p, str) == \E n \in 0..Len(str) : SubSeq(str, 1, n) = p
\* a Domain attribute without its optional leading dot, in lower case
AttrDomain(attr) == ToLower(IF attr # EmptyStr /\ attr[1] = "." THEN Tail(attr) ELSE attr)
\* the path a Set-Cookie header is filed under
AttrPath(attr) == IF attr = EmptyStr \/ attr[1] # "/" THEN <<"/">> ELSE attr
\* the path of a request ("" is the root)
ReqPath(p) == IF p = EmptyStr THEN <<"/">> ELSE p
PathRule(requestPath, cookiePath) ==
    \/ requestPath = cookiePath
    \/ /\ IsPrefixOf(cookiePath, requestPath)
       /\ \/ cookiePath[Len(cookiePath)] = "/"
          \/ Len(requestPath) > Len(cookiePath) /\ requestPath[Len(cookiePath) + 1] = "/"
DomainRule(c, host) ==
    IF c.HostOnly THEN host = c.Domain
    ELSE IF c.Domain = EmptyStr THEN TRUE      \* SetSimple's cookies carry no domain
    ELSE IsHostOrSubdomainOf(host, Tail(c.Domain))
\* the two grounds on which Set turns a header down
DomainRejected(host, c) ==
    c.Domain # EmptyStr /\ ~IsHostOrSubdomainOf(NormalizeHost(host), AttrDomain(c.Domain))
SecureRejected(c, requestSecure) == c.Secure /\ ~requestSecure
\* the last call was Set
LastSet == jarCall.op = "Set"
SetHost == jarCall.args[1]
SetCookie == jarCall.args[2]
SetSecure == jarCall.args[3]
\* (bucket, key) under which the header of the last Set is stored as a domain cookie
DomainRef == <<(<<".">> \o AttrDomain(SetCookie.Domain)),
               cookieKey(AttrPath(SetCookie.Path), SetCookie.Name)>>
\* (bucket, key) under which the header of the last Set is stored as a host-only cookie
HostRef == <<NormalizeHost(SetHost), cookieKey(AttrPath(SetCookie.Path), SetCookie.Name)>>
Sent(ref, h, p, s) == ref \in GetMatches(cookies, h, p, s, now)

\* C1: a header with Domain attribute D that Set accepts is stored as the
\* domain cookie "."+D (D in lower case, without a leading dot), and Get
\* returns it exactly for the requests whose host is D or ends in "."+D,
\* path, secure flag and expiry permitting
C1_DomainCookieScope ==
    (LastSet /\ SetCookie.Domain # EmptyStr
       /\ ~DomainRejected(SetHost, SetCookie) /\ ~SecureRejected(SetCookie, SetSecure))
    => /\ DomainRef \in JarRefs(cookies)
       /\ LET c == cookies[DomainRef[1]][DomainRef[2]]
          IN  /\ c.Domain = <<".">> \o AttrDomain(SetCookie.Domain)
              /\ ~c.HostOnly
              /\ c.Value = SetCookie.Value
              /\ \A h \in ReqHosts, p \in ReqPaths, s \in BOOLEAN :
                   Sent(DomainRef, h, p, s)
                   <=> /\ IsHostOrSubdomainOf(NormalizeHost(h), AttrDomain(SetCookie.Domain))
                       /\ PathRule(ReqPath(p), c.Path)
                       /\ (c.Secure => s)
                       /\ ~(c.Expires # Nil /\ c.Expires[1] < now)

\* C1 witness: Domain=e.t set from A.e.t:8 is sent to e.t/a and not to xe.t/a
C1_Witness ==
    /\ LastSet
    /\ SetHost = <<"A", ".", "e", ".", "t", ":", "8">>
    /\ SetCookie.Domain = <<"e", ".", "t">>
    /\ Sent(DomainRef, <<"e", ".", "t">>, <<"/", "a">>, TRUE)
    /\ ~Sent(DomainRef, <<"x", "e", ".", "t">>, <<"/", "a">>, TRUE)

\* C2: a header without Domain attribute is stored host-only under the
\* normalized host that set it, and every host-only cookie in the jar is
\* returned by Get only for requests whose normalized host is exactly that host
C2_HostOnlyExact ==
    /\ (LastSet /\ SetCookie.Domain = EmptyStr /\ ~SecureRejected(SetCookie, SetSecure))
       => /\ HostRef \in JarRefs(cookies)
          /\ cookies[HostRef[1]][HostRef[2]].HostOnly
          /\ cookies[HostRef[1]][HostRef[2]].Domain = NormalizeHost(SetHost)
    /\ \A h \in ReqHosts, p \in ReqPaths, s \in BOOLEAN :
         \A ref \in GetMatches(cookies, h, p, s, now) :
            cookies[ref[1]][ref[2]].HostOnly => NormalizeHost(h) = cookies[ref[1]][ref[2]].Domain

\* C2 witness: a host-only cookie set from e.t is sent to e.t, not to a.e.t
\* and not to the parent t
C2_Witness ==
    /\ LastSet
    /\ SetHost = <<"e", ".", "t">>
    /\ SetCookie.Domain = EmptyStr
    /\ Sent(HostRef, <<"E", ".", "T", ":", "9">>, <<"/", "a">>, TRUE)
    /\ ~Sent(HostRef, <<"a", ".", "e", ".", "t">>, <<"/", "a">>, TRUE)
    /\ ~Sent(HostRef, <<"t">>, <<"/", "a">>, TRUE)

\* C3: a Set of a Secure cookie from a request that is not HTTPS leaves the
\* jar as it was: Count does not grow and no stored cookie changes
C3_SecureOverHttpRejected ==
    [][(jarCall'.op = "Set" /\ jarCall'.args[2].Secure /\ ~jarCall'.args[3])
       => (cookies' = cookies /\ Count(cookies') = Count(cookies))]_vars

\* C3 witness: a Secure cookie was just offered over HTTP to a jar that
\* holds a cookie under the very key the header would be stored under
C3_Witness ==
    /\ LastSet /\ SetCookie.Secure /\ ~SetSecure
    /\ ~DomainRejected(SetHost, SetCookie)
    /\ (HostRef \in JarRefs(cookies) \/ DomainRef \in JarRefs(cookies))

\* C4: a Set whose Domain attribute the normalized request host neither
\* equals nor is a subdomain of leaves the jar's contents and Count unchanged
C4_ForeignDomainRejected ==
    [][(jarCall'.op = "Set" /\ DomainRejected(jarCall'.args[1], jarCall'.args[2]))
       => (cookies' = cookies /\ Count(cookies') = Count(cookies))]_vars

\* C4 witness: Domain=e.t was just offered by xe.t, not Secure-rejected,
\* to a jar that holds a cookie under the key the header would be stored under
C4_Witness ==
    /\ LastSet
    /\ SetHost = <<"x", "e", ".", "t">>
    /\ SetCookie.Domain = <<"e", ".", "t">>
    /\ ~SecureRejected(SetCookie, SetSecure)
    /\ DomainRef \in JarRefs(cookies)

\* C5: Get includes a stored cookie exactly when its domain matches the
\* host, its path matches the request path, it is not a Secure cookie asked
\* for over plain HTTP, and it is not expired
C5_GetRule ==
    \A h \in ReqHosts, p \in ReqPaths, s \in BOOLEAN :
      GetMatches(cookies, h, p, s, now)
      = {ref \in JarRefs(cookies) :
           LET c == cookies[ref[1]][ref[2]]
           IN  /\ DomainRule(c, NormalizeHost(h))
               /\ PathRule(ReqPath(p), c.Path)
               /\ ~(c.Secure /\ ~s)
               /\ ~(c.Expires # Nil /\ c.Expires[1] < now)}

\* C5 witness: the jar holds a cookie with path /a that is sent to /a/ but
\* not to /ab, and a Secure cookie that is sent over HTTPS only
C5_Witness ==
    /\ \E ref \in JarRefs(cookies) :
         /\ cookies[ref[1]][ref[2]].Path = <<"/", "a">>
         /\ Sent(ref, <<"e", ".", "t">>, <<"/", "a", "/">>, FALSE)
         /\ ~Sent(ref, <<"e", ".", "t">>, <<"/", "a", "b">>, FALSE)
    /\ \E ref \in JarRefs(cookies) :
         /\ cookies[ref[1]][ref[2]].Secure
         /\ Sent(ref, <<"e", ".", "t">>, <<"/", "b">>, TRUE)
         /\ ~Sent(ref, <<"e", ".", "t">>, <<"/", "b">>, FALSE)


\* the (name, value) pairs of the cookies that Get returns from a jar
Returned(jar, h, p, s) ==
    {<<jar[r[1]][r[2]].Name, jar[r[1]][r[2]].Value>> : r \in GetMatches(jar, h, p, s, now)}
\* two jars answer every request with the same cookies
SameAnswers(jar1, jar2) ==
    \A h \in ReqHosts, p \in ReqPaths, s \in BOOLEAN : Returned(jar1, h, p, s) = Returned(jar2, h, p, s)

\* C6: importing what Export returns into a fresh jar gives a jar that
\* answers every request with the same cookies as the exporting jar
C6_ExportImportRoundTrip ==
    \A e \in Exports(cookies, now) : SameAnswers(ImportResult(EmptyJar, e, now), cookies)

\* the v5 snapshot equivalent to a v4 list: the same cookies, in the same
\* order, keyed by their Domain
GroupByDomain(list) ==
    [d \in {list[i].Domain : i \in 1..Len(list)} |-> SelectSeq(list, LAMBDA c : c.Domain = d)]

\* C7: ImportV4 of a flat list and Import of the same cookies grouped by
\* domain build jars that answer every request alike
C7_V4SameAsV5 ==
    jarCall.op = "ImportV4"
    => SameAnswers(ImportV4Result(EmptyJar, jarCall.args[1], now),
                   ImportResult(EmptyJar, GroupByDomain(jarCall.args[1]), now))

(***************************************************************************)
(* TLS session cache: data and operations                                  *)
(***************************************************************************)
TLSSessionCacheMaxSize == 32     \* const TLSSessionCacheMaxSize
TLSSessionMaxAge == 24           \* const TLSSessionMaxAge, in hours

\* bounds of the TLS cache model
MaxDup == 1         \* Import is not offered when it would leave more repeated entries in accessOrder

\* len(c.sessions)
SessionCount(S) == Cardinality(DOMAIN S)

\* delete(c.sessions, key)
SessionsWithout(S, key) == [k \in (DOMAIN S) \ {key} |-> S[k]]

\* c.sessions[key] = &cachedSession{state, createdAt}
SessionsWith(S, key, state, createdAt) ==
    [k \in (DOMAIN S) \cup {key} |->
        IF k = key THEN [state |-> state, createdAt |-> createdAt] ELSE S[k]]

\* moveToEnd: the first occurrence of key goes to the end of the list
moveToEnd(order, key) ==
    IF \E i \in 1..Len(order) : order[i] = key
    THEN LET i == CHOOSE n \in 1..Len(order) :
                      order[n] = key /\ \A m \in 1..(n-1) : order[m] # key
         IN  SubSeq(order, 1, i-1) \o SubSeq(order, i+1, Len(order)) \o <<key>>
    ELSE order

\* Get as it would be without the call of moveToEnd
TlsGetResult_NoReorder(S, order, sessionKey) == [sessions |-> S, accessOrder |-> order]

\* PersistableSessionCache.Get: the cache after Get(sessionKey)
TlsGetResult(S, order, sessionKey) ==
    IF sessionKey \in DOMAIN S
    THEN [sessions |-> S, accessOrder |-> moveToEnd(order, sessionKey)]
    ELSE [sessions |-> S, accessOrder |-> order]

\* PersistableSessionCache.Get: what Get(sessionKey) returns
TlsGetReturn(S, sessionKey) ==
    IF sessionKey \in DOMAIN S THEN <<S[sessionKey].state, TRUE>> ELSE <<Nil, FALSE>>

\* PersistableSessionCache.Put: the cache after Put(sessionKey, cs) at time t
TlsPutResult(S, order, sessionKey, cs, t) ==
    IF sessionKey \in DOMAIN S
    THEN [sessions |-> SessionsWith(S, sessionKey, cs, t),
          accessOrder |-> moveToEnd(order, sessionKey)]
    ELSE LET evict == SessionCount(S) >= TLSSessionCacheMaxSize /\ Len(order) > 0
             S1 == IF evict THEN SessionsWithout(S, order[1]) ELSE S
             order1 == IF evict THEN Tail(order) ELSE order
         IN  [sessions |-> SessionsWith(S1, sessionKey, cs, t),
              accessOrder |-> Append(order1, sessionKey)]

\* Import as it would be without the "Skip expired sessions" test
TlsLoads_NoAgeCheck(e, t) == e.wellFormed

\* Import, the test at the head of the loop body: entries older than
\* TLSSessionMaxAge and entries that do not decode or parse are skipped
TlsLoads(e, t) == ~(t - e.createdAt > TLSSessionMaxAge) /\ e.wellFormed

\* Import, the loop over the snapshot, entries being listed in the order in
\* which the range over the map visits them (the keys of a map are distinct):
\* every loaded entry overwrites c.sessions[key] and is appended to accessOrder
TlsImportLoop(S, order, entries, t) ==
    LET loaded == SelectSeq(entries, LAMBDA e : TlsLoads(e, t))
        keys == {loaded[i].key : i \in 1..Len(loaded)}
        entryOf(k) == loaded[CHOOSE i \in 1..Len(loaded) : loaded[i].key = k]
    IN  [sessions |-> [k \in (DOMAIN S) \cup keys |->
                          IF k \in keys
                          THEN [state |-> entryOf(k).state, createdAt |-> entryOf(k).createdAt]
                          ELSE S[k]],
         accessOrder |-> order \o [i \in 1..Len(loaded) |-> loaded[i].key]]

\* Import, "Enforce max size limit after import": the front of accessOrder
\* is popped, and the popped key deleted from the sessions, until the
\* sessions fit or accessOrder is empty
TlsEnforceMax(c) ==
    LET after(n) == [k \in (DOMAIN c.sessions) \ {c.accessOrder[i] : i \in 1..n} |-> c.sessions[k]]
        stops(n) == ~(SessionCount(after(n)) > TLSSessionCacheMaxSize /\ Len(c.accessOrder) - n > 0)
        n == CHOOSE m \in 0..Len(c.accessOrder) : stops(m) /\ \A l \in 0..(m-1) : ~stops(l)
    IN  [sessions |-> after(n), accessOrder |-> SubSeq(c.accessOrder, n + 1, Len(c.accessOrder))]

\* PersistableSessionCache.Import: the cache after Import of the entries
TlsImportResult(S, order, entries, t) ==
    TlsEnforceMax(TlsImportLoop(S, order, entries, t))

(***************************************************************************)
(* TLS session cache: inputs                                               *)
(***************************************************************************)
\* the time of the TLS runs, in hours: an entry created at 0 is 25 hours old
TlsNow == TLSSessionMaxAge + 1

\* one entry of a snapshot: key, session state, creation time, and whether
\* ticket and state decode and parse
TlsEntry(key, state, createdAt, wellFormed) ==
    [key |-> key, state |-> state, createdAt |-> createdAt, wellFormed |-> wellFormed]

\* the keys that Put and Get name: one that the saved sessions hold as well,
\* one that only the larger of them holds, and one that none holds
HotKeys == {1, TLSSessionCacheMaxSize + 1, TLSSessionCacheMaxSize + 2}

\* a saved session with the keys lo..hi, visited in ascending order
Bulk(lo, hi) == [i \in 1..(hi - lo + 1) |-> TlsEntry(lo + i - 1, 1, TlsNow, TRUE)]

\* the snapshots offered to Import, each as the sequence in which the range
\* over the map visits its entries: key 1 alone (fresh, too old, not
\* decodable), keys 1 and 33 in both orders, key 33 too old (25 hours) next
\* to key 1 young enough (23 hours), and two saved sessions, of one entry
\* fewer and of one entry more than the cache can hold
TlsSnapshots ==
    {<<TlsEntry(1, 2, TlsNow, TRUE)>>,
     <<TlsEntry(1, 2, 0, TRUE)>>,
     <<TlsEntry(1, 2, TlsNow, FALSE)>>,
     <<TlsEntry(1, 2, TlsNow, TRUE), TlsEntry(TLSSessionCacheMaxSize + 1, 2, TlsNow, TRUE)>>,
     <<TlsEntry(TLSSessionCacheMaxSize + 1, 2, TlsNow, TRUE), TlsEntry(1, 2, TlsNow, TRUE)>>,
     <<TlsEntry(TLSSessionCacheMaxSize + 1, 2, 0, TRUE), TlsEntry(1, 2, 2, TRUE)>>,
     Bulk(2, TLSSessionCacheMaxSize),
     Bulk(1, TLSSessionCacheMaxSize + 1)}

(***************************************************************************)
(* TLS session cache: actions                                              *)
(***************************************************************************)
TlsCall(op, args, ret) == [op |-> op, args |-> args, ret |-> ret]

\* history: key has just been used
Touch(r, key) == SelectSeq(r, LAMBDA k : k # key) \o <<key>>
\* history: drop the keys that are no longer cached
Cached(r, S) == SelectSeq(r, LAMBDA k : k \in DOMAIN S)
\* history: the keys of the entries that Import loads, in loading order
Loaded(entries, t) ==
    LET ok == SelectSeq(entries, LAMBDA e : TlsLoads(e, t))
    IN  [i \in 1..Len(ok) |-> ok[i].key]
\* history: the (distinct) keys have just been used, in this order
TouchAll(r, keys) ==
    SelectSeq(r, LAMBDA k : \A i \in 1..Len(keys) : keys[i] # k) \o keys

\* the number of entries of the list beyond the first of each key
Repeats(order) == Len(order) - Cardinality({order[i] : i \in 1..Len(order)})

TlsInit ==
    /\ sessions = << >>
    /\ accessOrder = << >>
    /\ tlsCall = TlsCall("NewPersistableSessionCache", << >>, << >>)
    /\ recency = << >>

\* Get(sessionKey)
TlsGet(sessionKey) ==
    LET r == TlsGetResult(sessions, accessOrder, sessionKey)
    IN  /\ sessions' = r.sessions
        /\ accessOrder' = r.accessOrder
        /\ tlsCall' = TlsCall("Get", <<sessionKey>>, TlsGetReturn(sessions, sessionKey))
        /\ recency' = IF sessionKey \in DOMAIN sessions THEN Touch(recency, sessionKey) ELSE recency
        /\ UNCHANGED <<now, jarVars, warmVars, planVars, lockVars, fastVars>>

\* Put(sessionKey, cs)
TlsPut(sessionKey, cs) ==
    LET r == TlsPutResult(sessions, accessOrder, sessionKey, cs, now)
    IN  /\ sessions' = r.sessions
        /\ accessOrder' = r.accessOrder
        /\ tlsCall' = TlsCall("Put", <<sessionKey, cs>>, << >>)
        /\ recency' = Cached(Touch(recency, sessionKey), r.sessions)
        /\ UNCHANGED <<now, jarVars, warmVars, planVars, lockVars, fastVars>>

\* Import(sessions)
TlsImport(entries) ==
    LET r == TlsImportResult(sessions, accessOrder, entries, now)
    IN  /\ Repeats(r.accessOrder) <= MaxDup
        /\ sessions' = r.sessions
        /\ accessOrder' = r.accessOrder
        /\ tlsCall' = TlsCall("Import", <<entries>>, << >>)
        /\ recency' = Cached(TouchAll(recency, Loaded(entries, now)), r.sessions)
        /\ UNCHANGED <<now, jarVars, warmVars, planVars, lockVars, fastVars>>

\* Clear()
TlsClear ==
    /\ sessions' = << >>
    /\ accessOrder' = << >>
    /\ tlsCall' = TlsCall("Clear", << >>, << >>)
    /\ recency' = << >>
    /\ UNCHANGED <<now, jarVars, warmVars, planVars, lockVars, fastVars>>

TlsNext ==
    \/ \E k \in HotKeys : TlsGet(k)
    \/ \E k \in HotKeys, cs \in {1, 2} : TlsPut(k, cs)
    \/ \E e \in TlsSnapshots : TlsImport(e)
    \/ TlsClear

\* the cookie jar is idle while the TLS cache is exercised
SpecTLSInit ==
    /\ TlsInit
    /\ now = TlsNow
    /\ cookies = EmptyJar
    /\ jarCall = << >>
    /\ WarmIdle
    /\ PlanIdle
    /\ FastIdle
    /\ LockIdle

SpecTLS == SpecTLSInit /\ [][TlsNext]_vars

\* C8: the cache never holds more than TLSSessionCacheMaxSize sessions
C8_CountAtMostMax == SessionCount(sessions) <= TLSSessionCacheMaxSize


\* C9: a Put of a new key into a full cache removes exactly one session, the
\* least recently used one, and keeps every other session as it was
C9_EvictsLeastRecentlyUsed ==
    [][(/\ tlsCall'.op = "Put"
        /\ tlsCall'.args[1] \notin DOMAIN sessions
        /\ SessionCount(sessions) >= TLSSessionCacheMaxSize)
       => /\ (DOMAIN sessions) \ (DOMAIN sessions') = {Head(recency)}
          /\ \A k \in (DOMAIN sessions) \ {Head(recency)} :
                k \in DOMAIN sessions' /\ sessions'[k] = sessions[k]]_vars

\* C10: an Import that repeats the Import just made, with the same sessions,
\* leaves the sessions, Count and the LRU order as they were
C10_ReimportIsNoOp ==
    [][(tlsCall.op = "Import" /\ tlsCall'.op = "Import" /\ tlsCall'.args = tlsCall.args)
       => /\ sessions' = sessions
          /\ SessionCount(sessions') = SessionCount(sessions)
          /\ accessOrder' = accessOrder]_vars


\* the entries of a snapshot
EntriesOf(entries) == {entries[i] : i \in 1..Len(entries)}
\* the entry was created more than TLSSessionMaxAge before the time t
TooOld(e, t) == t - e.createdAt > TLSSessionMaxAge

\* C11: Import loads no entry created more than 24 hours before the import:
\* a key that is new to the cache and comes from such an entry is absent
\* afterwards and Count grows by no more than the number of new keys of the
\* younger entries, while the younger (decodable) entries of the same
\* snapshot are cached with their state and creation time whenever no
\* eviction for size can have taken place
C11_ImportSkipsOldSessions ==
    [][tlsCall'.op = "Import"
       => LET es == EntriesOf(tlsCall'.args[1])
              young == {e \in es : ~TooOld(e, now)}
          IN  /\ \A e \in es \ young :
                    e.key \notin DOMAIN sessions => e.key \notin DOMAIN sessions'
              /\ SessionCount(sessions')
                    <= SessionCount(sessions)
                       + Cardinality({e.key : e \in young} \ DOMAIN sessions)
              /\ SessionCount(sessions) + Cardinality(es) <= TLSSessionCacheMaxSize
                    => \A e \in young :
                          e.wellFormed
                          => /\ e.key \in DOMAIN sessions'
                             /\ sessions'[e.key] = [state |-> e.state, createdAt |-> e.createdAt]]_vars

\* C11 witness: an Import of a snapshot holding an entry that is too old and
\* a younger one has cached the younger and not the older
C11_Witness ==
    /\ tlsCall.op = "Import"
    /\ \E old, young \in EntriesOf(tlsCall.args[1]) :
          /\ TooOld(old, now) /\ ~TooOld(young, now)
          /\ old.key \notin DOMAIN sessions
          /\ young.key \in DOMAIN sessions
          /\ sessions[young.key].createdAt = young.createdAt

\* the keys of the LRU list
OrderKeys(order) == {order[i] : i \in 1..Len(order)}

\* C32: accessOrder holds every key of the sessions map exactly once and no
\* key that the map does not hold
C32_AccessOrderMatchesSessions ==
    /\ OrderKeys(accessOrder) = DOMAIN sessions
    /\ Len(accessOrder) = SessionCount(sessions)

\* the list without the entries of the key
Others(order, key) == SelectSeq(order, LAMBDA k : k # key)

\* the entries of a snapshot that Import is to load: not older than 24
\* hours, ticket and state decodable
ToLoad(entries, t) == {e \in EntriesOf(entries) : ~TooOld(e, t) /\ e.wellFormed}

\* C38: Get on a cached key returns the state last Put or imported for the
\* key (every Put and Import leaves the state it was given under its key,
\* and no call changes the state kept under another key), makes the key the
\* last of the LRU list, and changes neither the sessions nor the order of
\* the other keys; Get on an absent key returns (nil, false) and changes
\* nothing
C38_GetFrame ==
    [][/\ tlsCall'.op = "Get"
          => LET key == tlsCall'.args[1]
             IN  IF key \in DOMAIN sessions
                 THEN /\ tlsCall'.ret = <<sessions[key].state, TRUE>>
                      /\ sessions' = sessions
                      /\ accessOrder'[Len(accessOrder')] = key
                      /\ Len(accessOrder') = Len(accessOrder)
                      /\ Others(accessOrder', key) = Others(accessOrder, key)
                 ELSE /\ tlsCall'.ret = <<Nil, FALSE>>
                      /\ sessions' = sessions
                      /\ accessOrder' = accessOrder
       /\ tlsCall'.op = "Put"
          => /\ tlsCall'.args[1] \in DOMAIN sessions'
             /\ sessions'[tlsCall'.args[1]].state = tlsCall'.args[2]
             /\ \A k \in (DOMAIN sessions) \cap (DOMAIN sessions') :
                   k # tlsCall'.args[1] => sessions'[k] = sessions[k]
       /\ tlsCall'.op = "Import"
          => LET es == ToLoad(tlsCall'.args[1], now)
             IN  /\ \A e \in es :
                       e.key \in DOMAIN sessions' => sessions'[e.key].state = e.state
                 /\ \A k \in (DOMAIN sessions) \cap (DOMAIN sessions') :
                       k \notin {e.key : e \in es} => sessions'[k] = sessions[k]
      ]_vars

\* C38 witness: Get(1) has returned the state 2 that the last Import or Put
\* left under key 1, and key 1 is the last of an LRU list that holds
\* another key before it
C38_Witness ==
    /\ tlsCall.op = "Get"
    /\ tlsCall.args[1] = 1
    /\ tlsCall.ret[2]
    /\ tlsCall.ret[1] = 2
    /\ Len(accessOrder) >= 2
    /\ accessOrder[Len(accessOrder)] = 1
    /\ accessOrder[1] # 1


(***************************************************************************)
(* TLS session cache while time passes                                     *)
(***************************************************************************)
\* bound: the number of times the clock advances
MaxTlsTicks == 3

\* the clock advances by half of TLSSessionMaxAge at a time
TlsTickHours == TLSSessionMaxAge \div 2

\* the keys that Put and Get name while time passes
AgeKeys == {1, TLSSessionCacheMaxSize + 1}

\* time.Now() moves on between two calls
TlsTick ==
    /\ now + TlsTickHours <= TlsNow + MaxTlsTicks * TlsTickHours
    /\ now' = now + TlsTickHours
    /\ UNCHANGED <<tlsVars, jarVars, warmVars, planVars, lockVars, fastVars>>

TlsAgeNext ==
    \/ \E k \in AgeKeys : TlsGet(k)
    \/ \E k \in AgeKeys, cs \in {1, 2} : TlsPut(k, cs)
    \/ TlsTick

SpecTLSAge == SpecTLSInit /\ [][TlsAgeNext]_vars

\* C12: Get does not hand out a session that was stored more than 24 hours
\* before the call
C12_GetPrunesByAge ==
    [][(/\ tlsCall'.op = "Get"
        /\ now' = now
        /\ tlsCall'.args[1] \in DOMAIN sessions
        /\ TooOld(sessions[tlsCall'.args[1]], now))
       => tlsCall'.ret[2] = FALSE]_vars


(***************************************************************************)
(* Page warmup: discovery and planning                                     *)
(***************************************************************************)
maxSubresources == 50      \* const maxSubresources
concurrencyLimit == 6      \* const concurrencyLimit

\* bound: the number of times the clock advances while requests are in flight
MaxWarmTicks == 1

resourceCSS == "CSS"
resourceJS == "JS"
resourceImage == "Image"
resourceFont == "Font"

\* subresource{url, typ}
subresource(url, typ) == [url |-> url, typ |-> typ]

\* parseSubresources as it would be without the map seen
parseSubresources_NoDedup(tags) ==
    SubSeq(tags, 1, IF Len(tags) < maxSubresources THEN Len(tags) ELSE maxSubresources)

\* parseSubresources, the loop over the tokens: tags lists, in document
\* order, the tags that carry a URL and match a resource type, each with
\* its resolved URL; seen and resources are the loop's variables
RECURSIVE parseLoop(_, _, _)
parseLoop(tags, seen, resources) ==
    IF tags = << >>
    THEN resources
    ELSE LET t == Head(tags)
             appended == IF t.url \in seen THEN resources ELSE Append(resources, t)
         IN  IF Len(appended) >= maxSubresources
             THEN appended
             ELSE parseLoop(Tail(tags), seen \cup {t.url}, appended)

parseSubresources(tags) == parseLoop(tags, {}, << >>)

\* groupByPriority as it would be if fonts were fetched with the images
groupByPriority_FontsWithImages(resources) ==
    <<SelectSeq(resources, LAMBDA r : r.typ = resourceCSS),
      SelectSeq(resources, LAMBDA r : r.typ = resourceJS),
      SelectSeq(resources, LAMBDA r : r.typ \in {resourceImage, resourceFont})>>

\* groupByPriority: cssAndFonts, scripts, images
groupByPriority(resources) ==
    <<SelectSeq(resources, LAMBDA r : r.typ \in {resourceCSS, resourceFont}),
      SelectSeq(resources, LAMBDA r : r.typ = resourceJS),
      SelectSeq(resources, LAMBDA r : r.typ = resourceImage)>>

\* Warmup as it would be with no delay set for any batch
delays_Unset == <<[min |-> 0, max |-> 0], [min |-> 0, max |-> 0], [min |-> 0, max |-> 0]>>

\* Warmup: delays, in milliseconds
delays == <<[min |-> 0, max |-> 0], [min |-> 50, max |-> 150], [min |-> 100, max |-> 300]>>

\* Warmup as it would be if only the scripts were held back
needsDelay_ScriptsOnly(i) == i = 2 /\ delays[i].max > 0

\* Warmup, "Inter-batch delay (skip for first batch)": the test made for the
\* batch at place i (i is 0, 1, 2 in the code and 1, 2, 3 here)
needsDelay(i) == i > 1 /\ delays[i].max > 0

\* randInt64(n): the least and the greatest value below n
randInt64(n) == {0, n - 1}

\* interBatchDelay: the durations d that the timer can be set to
DelayDurations(minMs, maxMs) ==
    IF maxMs > minMs THEN {minMs + r : r \in randInt64(maxMs - minMs)} ELSE {minMs}

\* interBatchDelay as it would be with the timer as the only case of its select
interBatchDelay_IgnoresContext(cancelled) == {"elapsed"}

\* interBatchDelay, the select: a goroutine parked in the select is woken
\* by the first of the two channels to become ready, so the timer wins
\* only while the context is not cancelled
interBatchDelay(cancelled) == IF cancelled THEN {"cancelled"} ELSE {"elapsed"}

\* Session.Request: a call made with a cancelled context is aborted before
\* anything is sent
RequestStarts(cancelled) == ~cancelled

\* fetchBatch as it would be if a failed request ended the batch
fetchBatchStops_OnFailure(cancelled, failed) == cancelled \/ failed # {}

\* fetchBatch, the test at the head of the loop over batch: only the
\* context is read, the requests that failed so far play no part
fetchBatchStops(cancelled, failed) == cancelled

\* fetchBatch as it would be with an unbounded channel sem
SemHasRoom_Unbounded(tokens) == TRUE

\* fetchBatch, "sem <- struct{}{}": the send goes through while the channel
\* holds fewer than concurrencyLimit tokens
SemHasRoom(tokens) == tokens < concurrencyLimit

\* fetchBatch as it would be without the wait on wg
FetchBatchReturns_NoWait(counter, cancelled) == TRUE

\* fetchBatch, the select at its end: done is closed once wg is at zero
FetchBatchReturns(counter, cancelled) == counter = 0 \/ cancelled

\* Warmup's return values: the error returned and the line of the return statement
RetNavErr == <<"err of s.Request", 52>>
RetBodyErr == <<"err of resp.Bytes", 58>>
RetNotHTML == <<"nil", 67>>
RetCtxErr == <<"ctx.Err()", 92>>
RetDelayErr == <<"ctx.Err()", 98>>
RetNil == <<"nil", 105>>

\* strings.Contains(s, substr)
ContainsSubstr(s, substr) ==
    \E i \in 1..(Len(s) - Len(substr) + 1) : SubSeq(s, i, i + Len(substr) - 1) = substr

sTextHTML == <<"t", "e", "x", "t", "/", "h", "t", "m", "l">>

\* Warmup as it would be if every response were taken for HTML
isHTML_Always(headers) == TRUE

\* Warmup, lines 62 to 66: the first value of the header content-type
\* contains "text/html"; headers is resp.Headers, a map from names to lists
\* of values
isHTML(headers) ==
    LET ct == IF "content-type" \in DOMAIN headers /\ Len(headers["content-type"]) > 0
              THEN headers["content-type"][1]
              ELSE EmptyStr
    IN  ContainsSubstr(ct, sTextHTML)

\* the outcome of the navigation: resp is what s.Request and resp.Bytes()
\* yield, err and bodyErr telling whether they fail
NavOutcome(resp) ==
    IF resp.err THEN "error"
    ELSE IF resp.bodyErr THEN "bodyError"
    ELSE IF ~isHTML(resp.headers) THEN "notHTML"
    ELSE "html"

\* Warmup as it would be if the error of resp.Bytes() were dropped
Navigate_IgnoresBodyError(tags, nav) ==
    IF nav = "error" THEN [ret |-> RetNavErr, batches |-> << >>]
    ELSE IF nav = "notHTML" THEN [ret |-> RetNotHTML, batches |-> << >>]
    ELSE [ret |-> Nil, batches |-> groupByPriority(parseSubresources(tags))]

\* Warmup up to the loop over batches: the value returned at once, if any,
\* and the batches otherwise; nav is the outcome of the navigation request
\* and tags the tags of the body served
Navigate(tags, nav) ==
    IF nav = "error" THEN [ret |-> RetNavErr, batches |-> << >>]
    ELSE IF nav = "bodyError" THEN [ret |-> RetBodyErr, batches |-> << >>]
    ELSE IF nav = "notHTML" THEN [ret |-> RetNotHTML, batches |-> << >>]
    ELSE [ret |-> Nil, batches |-> groupByPriority(parseSubresources(tags))]


(***************************************************************************)
(* Page warmup: inputs                                                     *)
(***************************************************************************)
\* a run of stylesheets with the URLs u1 .. un
Stylesheets(urls) == [k \in 1..Len(urls) |-> subresource(urls[k], resourceCSS)]

\* the pages served: one resource of each batch; a stylesheet named twice
\* and once more as an image, next to a script; stylesheets and an image
\* but no script; a font and a stylesheet; a script alone; an image alone;
\* one stylesheet more than concurrencyLimit; and a page without
\* subresources
Pages ==
    {<<subresource("a", resourceCSS), subresource("b", resourceJS), subresource("c", resourceImage)>>,
     <<subresource("a", resourceCSS), subresource("a", resourceCSS),
       subresource("a", resourceImage), subresource("b", resourceJS)>>,
     <<subresource("a", resourceCSS), subresource("c", resourceImage)>>,
     <<subresource("a", resourceFont), subresource("b", resourceCSS)>>,
     <<subresource("b", resourceJS)>>,
     <<subresource("c", resourceImage)>>,
     Stylesheets(SubSeq(<<"d", "e", "f", "g", "h", "i", "j", "k">>, 1, concurrencyLimit + 1)),
     << >>}

\* the outcomes of the navigation: s.Request fails, resp.Bytes() fails, the
\* response is not text/html, the response is HTML
NavOutcomes == {"error", "bodyError", "notHTML", "html"}

\* resp.Headers with the one header content-type and the given values
ContentType(vals) == [h \in {"content-type"} |-> vals]

sCharset == <<";", " ", "c", "h", "a", "r", "s", "e", "t", "=", "u", "t", "f", "-", "8">>
sJSON == <<"a", "p", "p", "l", "i", "c", "a", "t", "i", "o", "n", "/", "j", "s", "o", "n">>

Response(err, bodyErr, headers) == [err |-> err, bodyErr |-> bodyErr, headers |-> headers]

\* the responses to the navigation request: text/html with a charset for
\* every page; for the pages of at most concurrencyLimit resources also a
\* failed request, a body that cannot be read, text/html alone, JSON, no
\* content-type header, a header without values, an empty value, JSON
\* before text/html in a second value, TEXT/HTML in capitals, and text/htm
Responses(tags) ==
    {Response(FALSE, FALSE, ContentType(<<sTextHTML \o sCharset>>))}
    \cup
    (IF Len(tags) > concurrencyLimit
     THEN {Response(TRUE, FALSE, << >>)}
     ELSE {Response(TRUE, FALSE, << >>),
           Response(FALSE, TRUE, ContentType(<<sTextHTML>>)),
           Response(FALSE, FALSE, ContentType(<<sTextHTML>>)),
           Response(FALSE, FALSE, ContentType(<<sJSON>>)),
           Response(FALSE, FALSE, [h \in {"server"} |-> <<sJSON>>]),
           Response(FALSE, FALSE, ContentType(<< >>)),
           Response(FALSE, FALSE, ContentType(<<EmptyStr>>)),
           Response(FALSE, FALSE, ContentType(<<sJSON, sTextHTML>>)),
           Response(FALSE, FALSE,
                    ContentType(<<<<"T", "E", "X", "T", "/", "h", "T", "m", "l">>>>)),
           Response(FALSE, FALSE, ContentType(<<SubSeq(sTextHTML, 1, 8)>>))})

\* the URLs of the page whose requests the server fails: none, "a" and "c",
\* or "b"
FailingSets(tags, nav) ==
    IF nav = "html"
    THEN {F \cap {tags[k].url : k \in 1..Len(tags)} : F \in {{}, {"a", "c"}, {"b"}}}
    ELSE {{}}

(***************************************************************************)
(* Page warmup: actions                                                    *)
(***************************************************************************)
\* the goroutines that fetchBatch can start: one per position of a batch
GoIds(b) == UNION {{<<i, j>> : j \in 1..Len(b[i])} : i \in 1..Len(b)}

\* the subresource a goroutine was started for
ResOf(g) == batches[g[1]][g[2]]

\* the goroutines whose request has been sent
Requested(G) == {g \in DOMAIN G : G[g] \in {"inflight", "ok", "failed"}}
\* the goroutines that are running
Running(G) == {g \in DOMAIN G : G[g] \in {"started", "inflight"}}
\* the goroutines of batch i whose request failed
Failed(G, i) == {g \in DOMAIN G : g[1] = i /\ G[g] = "failed"}

\* return from Warmup
WarmReturn(ret) ==
    /\ warmPc' = "returned"
    /\ warmRet' = ret

\* the deferred calls of a goroutine of batch i: <-sem and wg.Done()
GoExit(i) ==
    /\ sem' = [sem EXCEPT ![i] = @ - 1]
    /\ wg' = [wg EXCEPT ![i] = @ - 1]


\* Warmup(ctx, url), lines 47 to 82: the navigation request, the body, the
\* content type, discovery and grouping
WarmupCall(tags, resp, failing) ==
    LET nav == NavOutcome(resp)
        r == Navigate(tags, nav)
    IN  /\ warmPc = "idle"
        /\ RequestStarts(ctxDone) \/ nav = "error"
        /\ warmCall' = [tags |-> tags, nav |-> nav, failing |-> failing, resp |-> resp]
        /\ batches' = r.batches
        /\ goroutines' = [g \in GoIds(r.batches) |-> "none"]
        /\ sem' = [i \in 1..Len(r.batches) |-> 0]
        /\ wg' = [i \in 1..Len(r.batches) |-> 0]
        /\ IF r.ret = Nil
           THEN warmPc' = "loop" /\ batchIdx' = 1 /\ UNCHANGED warmRet
           ELSE WarmReturn(r.ret) /\ UNCHANGED batchIdx
        /\ UNCHANGED <<resIdx, ctxDone, clock, ticks, firstRequestAt>>
        /\ UNCHANGED <<now, jarVars, tlsVars, planVars, lockVars, fastVars>>

\* Warmup, one round of the loop over batches up to the delay or the call
\* of fetchBatch, and the return after the last round
WarmLoop ==
    /\ warmPc = "loop"
    /\ IF batchIdx > Len(batches)
       THEN WarmReturn(RetNil) /\ UNCHANGED <<batchIdx, resIdx>>
       ELSE IF Len(batches[batchIdx]) = 0
       THEN batchIdx' = batchIdx + 1 /\ UNCHANGED <<warmPc, warmRet, resIdx>>
       ELSE IF ctxDone
       THEN WarmReturn(RetCtxErr) /\ UNCHANGED <<batchIdx, resIdx>>
       ELSE IF needsDelay(batchIdx)
       THEN warmPc' = "delay" /\ UNCHANGED <<warmRet, batchIdx, resIdx>>
       ELSE warmPc' = "spawn" /\ resIdx' = 1 /\ UNCHANGED <<warmRet, batchIdx>>
    /\ UNCHANGED <<warmCall, batches, ctxDone, sem, wg, goroutines, clock, ticks, firstRequestAt>>
    /\ UNCHANGED <<now, jarVars, tlsVars, planVars, lockVars, fastVars>>

\* interBatchDelay: the timer fires after d milliseconds and fetchBatch is called
WarmDelayElapsed(d) ==
    /\ warmPc = "delay"
    /\ "elapsed" \in interBatchDelay(ctxDone)
    /\ d \in DelayDurations(delays[batchIdx].min, delays[batchIdx].max)
    /\ clock' = clock + d
    /\ warmPc' = "spawn"
    /\ resIdx' = 1
    /\ UNCHANGED <<warmCall, warmRet, batches, batchIdx, ctxDone, sem, wg, goroutines,
                   ticks, firstRequestAt>>
    /\ UNCHANGED <<now, jarVars, tlsVars, planVars, lockVars, fastVars>>

\* interBatchDelay: ctx.Done() wins, and Warmup returns the error
WarmDelayCancelled ==
    /\ warmPc = "delay"
    /\ "cancelled" \in interBatchDelay(ctxDone)
    /\ WarmReturn(RetDelayErr)
    /\ UNCHANGED <<warmCall, batches, batchIdx, resIdx, ctxDone, sem, wg, goroutines,
                   clock, ticks, firstRequestAt>>
    /\ UNCHANGED <<now, jarVars, tlsVars, planVars, lockVars, fastVars>>

\* fetchBatch, the head of the loop over batch: the end of the batch, the
\* test of the context, and wg.Add(1)
WarmSpawnCheck ==
    /\ warmPc = "spawn"
    /\ IF resIdx > Len(batches[batchIdx])
          \/ fetchBatchStops(ctxDone, Failed(goroutines, batchIdx))
       THEN warmPc' = "wait" /\ UNCHANGED wg
       ELSE warmPc' = "acquire" /\ wg' = [wg EXCEPT ![batchIdx] = @ + 1]
    /\ UNCHANGED <<warmCall, warmRet, batches, batchIdx, resIdx, ctxDone, sem, goroutines,
                   clock, ticks, firstRequestAt>>
    /\ UNCHANGED <<now, jarVars, tlsVars, planVars, lockVars, fastVars>>

\* fetchBatch, "sem <- struct{}{}" and the go statement
WarmAcquire ==
    /\ warmPc = "acquire"
    /\ SemHasRoom(sem[batchIdx])
    /\ sem' = [sem EXCEPT ![batchIdx] = @ + 1]
    /\ goroutines' = [goroutines EXCEPT ![<<batchIdx, resIdx>>] = "started"]
    /\ resIdx' = resIdx + 1
    /\ warmPc' = "spawn"
    /\ UNCHANGED <<warmCall, warmRet, batches, batchIdx, ctxDone, wg, clock, ticks, firstRequestAt>>
    /\ UNCHANGED <<now, jarVars, tlsVars, planVars, lockVars, fastVars>>

\* the goroutine, from "if ctx.Err() != nil { return }" to the call of
\* s.Request: a cancellation that falls between the test and the call is
\* met by s.Request itself, so that the two make one step
GoStart(g) ==
    /\ g \in DOMAIN goroutines
    /\ goroutines[g] = "started"
    /\ IF ~ctxDone /\ RequestStarts(ctxDone)
       THEN /\ goroutines' = [goroutines EXCEPT ![g] = "inflight"]
            /\ firstRequestAt' = IF firstRequestAt = Nil THEN <<clock>> ELSE firstRequestAt
            /\ UNCHANGED <<sem, wg>>
       ELSE /\ goroutines' = [goroutines EXCEPT ![g] = "skipped"]
            /\ GoExit(g[1])
            /\ UNCHANGED firstRequestAt
    /\ UNCHANGED <<warmPc, warmCall, warmRet, batches, batchIdx, resIdx, ctxDone, clock, ticks>>
    /\ UNCHANGED <<now, jarVars, tlsVars, planVars, lockVars, fastVars>>

\* the goroutine, from the return of s.Request to its end: the request has
\* failed, or it has succeeded and the body is discarded; the server fails
\* the URLs named by the call
GoFinish(g) ==
    /\ g \in DOMAIN goroutines
    /\ goroutines[g] = "inflight"
    /\ goroutines' = [goroutines EXCEPT
                        ![g] = IF ResOf(g).url \in warmCall.failing THEN "failed" ELSE "ok"]
    /\ GoExit(g[1])
    /\ UNCHANGED <<warmPc, warmCall, warmRet, batches, batchIdx, resIdx, ctxDone,
                   clock, ticks, firstRequestAt>>
    /\ UNCHANGED <<now, jarVars, tlsVars, planVars, lockVars, fastVars>>

\* fetchBatch, the select at its end, and the return to the loop of Warmup
WarmWait ==
    /\ warmPc = "wait"
    /\ FetchBatchReturns(wg[batchIdx], ctxDone)
    /\ batchIdx' = batchIdx + 1
    /\ warmPc' = "loop"
    /\ UNCHANGED <<warmCall, warmRet, batches, resIdx, ctxDone, sem, wg, goroutines,
                   clock, ticks, firstRequestAt>>
    /\ UNCHANGED <<now, jarVars, tlsVars, planVars, lockVars, fastVars>>

\* the caller cancels the context
WarmCancel ==
    /\ warmPc # "returned"
    /\ ~ctxDone
    /\ ctxDone' = TRUE
    /\ UNCHANGED <<warmPc, warmCall, warmRet, batches, batchIdx, resIdx, sem, wg, goroutines,
                   clock, ticks, firstRequestAt>>
    /\ UNCHANGED <<now, jarVars, tlsVars, planVars, lockVars, fastVars>>

\* 100 milliseconds pass while requests are in flight
WarmTick ==
    /\ \E g \in DOMAIN goroutines : goroutines[g] = "inflight"
    /\ ticks < MaxWarmTicks
    /\ ticks' = ticks + 1
    /\ clock' = clock + 100
    /\ UNCHANGED <<warmPc, warmCall, warmRet, batches, batchIdx, resIdx, ctxDone, sem, wg,
                   goroutines, firstRequestAt>>
    /\ UNCHANGED <<now, jarVars, tlsVars, planVars, lockVars, fastVars>>

WarmNext ==
    \/ \E tags \in Pages :
          \E resp \in Responses(tags) :
             \E failing \in FailingSets(tags, NavOutcome(resp)) :
                WarmupCall(tags, resp, failing)
    \/ WarmLoop
    \/ \E d \in 0..delays[3].max : WarmDelayElapsed(d)
    \/ WarmDelayCancelled
    \/ WarmSpawnCheck
    \/ WarmAcquire
    \/ \E g \in DOMAIN goroutines : GoStart(g)
    \/ \E g \in DOMAIN goroutines : GoFinish(g)
    \/ WarmWait
    \/ WarmCancel
    \/ WarmTick

\* the cookie jar and the TLS cache are idle during the warmup
SpecWarmInit ==
    /\ WarmIdle
    /\ PlanIdle
    /\ FastIdle
    /\ LockIdle
    /\ now = 1
    /\ cookies = EmptyJar
    /\ jarCall = << >>
    /\ sessions = << >>
    /\ accessOrder = << >>
    /\ tlsCall = << >>
    /\ recency = << >>

SpecWarm == SpecWarmInit /\ [][WarmNext]_vars


(***************************************************************************)
(* Page warmup: properties                                                 *)
(***************************************************************************)
\* the goroutines whose request is in flight
InFlight == {g \in DOMAIN goroutines : goroutines[g] = "inflight"}
\* the goroutines whose request has come to its end
Finished == {g \in DOMAIN goroutines : goroutines[g] \in {"ok", "failed"}}
\* the goroutines of batch i
OfBatch(i) == {g \in DOMAIN goroutines : g[1] = i}
\* the request of goroutine g is sent in this step
Sends(g) == goroutines[g] # "inflight" /\ goroutines'[g] = "inflight"
\* the page has stylesheets or fonts, scripts and images
AllBatchesFilled == Len(batches) = 3 /\ \A i \in 1..3 : Len(batches[i]) > 0
\* the URLs of the tags of the page served
PageUrls == {warmCall.tags[k].url : k \in 1..Len(warmCall.tags)}

\* C13: at no instant are more than 6 subresource requests in flight
C13_AtMostSixInFlight == Cardinality(InFlight) <= concurrencyLimit

\* C13 witness: six requests are in flight and fetchBatch is held at the
\* channel with a seventh subresource still to be started
C13_Witness ==
    /\ warmPc = "acquire"
    /\ Cardinality(InFlight) = concurrencyLimit
    /\ goroutines[<<batchIdx, resIdx>>] = "none"

\* C14: absent cancellation the first batch holds the stylesheets and fonts,
\* the second the scripts and the third the images, and no goroutine of a
\* batch is started before every request of the batches before it has ended
C14_BatchOrder ==
    (warmPc # "idle" /\ ~ctxDone)
    => /\ \A g \in DOMAIN goroutines :
             ResOf(g).typ \in (CASE g[1] = 1 -> {resourceCSS, resourceFont}
                                 [] g[1] = 2 -> {resourceJS}
                                 [] OTHER -> {resourceImage})
       /\ \A g, h \in DOMAIN goroutines :
             (g[1] < h[1] /\ goroutines[h] # "none") => g \in Finished

\* C14 witness: without cancellation the request of an image is in flight
\* after those of a stylesheet and of a script have ended
C14_Witness ==
    /\ warmPc # "idle" /\ ~ctxDone
    /\ AllBatchesFilled
    /\ OfBatch(3) \cap InFlight # {}
    /\ OfBatch(1) \cup OfBatch(2) \subseteq Finished

\* C15: on a page with all three batches, fetchBatch is called for the
\* scripts 50 to 150 ms after it returned for the stylesheets and fonts, and
\* for the images 100 to 300 ms after it returned for the scripts; no script
\* request is sent earlier than 50 ms, and no image request earlier than
\* 150 ms, after the first subresource request
C15_InterBatchDelays ==
    [][(warmPc # "idle" /\ AllBatchesFilled)
       => /\ (warmPc = "delay" /\ warmPc' = "spawn")
                => /\ batchIdx = 2 => (clock' - clock) \in 50..150
                   /\ batchIdx = 3 => (clock' - clock) \in 100..300
          /\ (warmPc = "loop" /\ warmPc' = "spawn") => batchIdx = 1
          /\ \A g \in DOMAIN goroutines :
                Sends(g) => /\ g[1] = 2 => clock' >= firstRequestAt'[1] + 50
                            /\ g[1] = 3 => clock' >= firstRequestAt'[1] + 150]_vars

\* C15 witness: an image request is in flight exactly 150 ms after the
\* first subresource request
C15_Witness ==
    /\ warmPc # "idle"
    /\ AllBatchesFilled
    /\ OfBatch(3) \cap InFlight # {}
    /\ clock = firstRequestAt[1] + 150

\* C16: once the context is cancelled no subresource request is sent, and
\* a Warmup that is in its inter-batch delay when the context is cancelled
\* leaves it by returning the context's error, with no goroutine started
\* for the batch that the delay precedes
C16_CancelStopsBatches ==
    [][/\ \A g \in DOMAIN goroutines : (ctxDone /\ warmPc # "idle") => ~Sends(g)
       /\ (warmPc = "delay" /\ ctxDone /\ warmPc' # "delay")
             => /\ warmPc' = "returned"
                /\ warmRet'[1] = "ctx.Err()"
                /\ \A g \in OfBatch(batchIdx) : goroutines'[g] = "none"]_vars

\* C16 witness: Warmup has returned the context's error out of the delay
\* that precedes the scripts, whose request was never sent
C16_Witness ==
    /\ warmPc = "returned"
    /\ warmRet = RetDelayErr
    /\ batchIdx = 2
    /\ OfBatch(1) # {} /\ OfBatch(1) \subseteq Finished
    /\ \A g \in OfBatch(2) \cup OfBatch(3) : goroutines[g] = "none"

\* C17: when Warmup has returned, no goroutine it started is still running
C17_NothingOutlivesTheCall == warmPc = "returned" => Running(goroutines) = {}

\* C18: when the navigation request fails or its body cannot be read, Warmup
\* returns that error and no subresource request is sent
C18_NavigationErrorSurfaced ==
    (warmPc # "idle" /\ warmCall.nav \in {"error", "bodyError"})
    => /\ warmPc = "returned"
       /\ warmRet = (IF warmCall.nav = "error" THEN RetNavErr ELSE RetBodyErr)
       /\ \A g \in DOMAIN goroutines : goroutines[g] = "none"

\* C18 witness: the body of a page with subresources could not be read and
\* Warmup has returned that error
C18_Witness ==
    /\ warmPc = "returned"
    /\ warmCall.nav = "bodyError"
    /\ warmCall.tags # << >>
    /\ warmRet = RetBodyErr

\* C19: absent cancellation, Warmup of an HTML page returns nil after the
\* request of every URL of the page has been sent and has ended, whichever
\* of them failed
C19_SubresourceErrorsSwallowed ==
    (warmPc = "returned" /\ ~ctxDone /\ warmCall.nav = "html")
    => /\ warmRet = RetNil
       /\ \A u \in PageUrls : \E g \in Finished : ResOf(g).url = u

\* C19 witness: Warmup has returned nil from a batch of two in which the
\* first request failed and the second succeeded
C19_Witness ==
    /\ warmPc = "returned" /\ ~ctxDone
    /\ warmRet = RetNil
    /\ \E g, h \in DOMAIN goroutines :
          /\ g[1] = h[1] /\ g[2] < h[2]
          /\ goroutines[g] = "failed"
          /\ goroutines[h] = "ok"

\* C20: no URL is requested more than once in one Warmup
C20_NeverRetries ==
    \A g, h \in Requested(goroutines) : ResOf(g).url = ResOf(h).url => g = h

\* C20 witness: a page names a URL under several tags, the request of that
\* URL failed, and Warmup has returned with the URL requested once
C20_Witness ==
    /\ warmPc = "returned" /\ warmRet = RetNil
    /\ Len(warmCall.tags) > Cardinality(PageUrls)
    /\ \E g \in DOMAIN goroutines :
          /\ goroutines[g] = "failed"
          /\ Cardinality({k \in 1..Len(warmCall.tags) : warmCall.tags[k].url = ResOf(g).url}) > 1

\* the Content-Type of the navigation response: the first value of its
\* content-type header, the empty string when it has none
ContentTypeOf(resp) ==
    IF "content-type" \in DOMAIN resp.headers /\ resp.headers["content-type"] # << >>
    THEN Head(resp.headers["content-type"])
    ELSE EmptyStr

\* the string s has the nine characters text/html at some position
HasTextHTML(s) ==
    \E i \in 1..Len(s) :
        /\ i + 8 <= Len(s)
        /\ <<s[i], s[i + 1], s[i + 2], s[i + 3], s[i + 4], s[i + 5], s[i + 6], s[i + 7],
              s[i + 8]>> = <<"t", "e", "x", "t", "/", "h", "t", "m", "l">>

\* C26: when the navigation succeeds with a Content-Type that does not
\* contain text/html, Warmup has returned nil and no subresource request is
\* ever sent; when it contains text/html, the batches are those discovered
\* in the body and, absent cancellation, Warmup returns only after every
\* URL of the page has been requested
C26_OnlyHTMLIsWarmed ==
    (warmPc # "idle" /\ ~warmCall.resp.err /\ ~warmCall.resp.bodyErr)
    => IF HasTextHTML(ContentTypeOf(warmCall.resp))
       THEN /\ batches = groupByPriority(parseSubresources(warmCall.tags))
            /\ (warmPc = "returned" /\ ~ctxDone)
                 => \A u \in PageUrls : \E g \in Requested(goroutines) : ResOf(g).url = u
       ELSE /\ warmPc = "returned"
            /\ warmRet[1] = "nil"
            /\ Requested(goroutines) = {}
            /\ Running(goroutines) = {}

\* C26 witness: a JSON response whose body names three subresources; Warmup
\* has returned nil and has requested none of them
C26_Witness ==
    /\ warmPc = "returned"
    /\ ~warmCall.resp.err /\ ~warmCall.resp.bodyErr
    /\ ContentTypeOf(warmCall.resp) = sJSON
    /\ Len(warmCall.tags) = 3
    /\ warmRet = RetNotHTML
    /\ Requested(goroutines) = {}

\* the delay, in milliseconds, that stands before the batch
OwnDelay(i) == CASE i = 2 -> 50..150 [] i = 3 -> 100..300 [] OTHER -> {0}

\* C36: an empty batch is passed over without a request and without a
\* delay; fetchBatch is called for a non-empty script or image batch out of
\* that batch's own delay (50 to 150 ms, 100 to 300 ms), also when every
\* batch before it was empty, and for the first batch with no delay; on a
\* page with stylesheets and images and no script, the time from the first
\* request to an image request is that delay of 100 to 300 ms plus the
\* time the requests took
C36_EmptyBatchesAndOwnDelays ==
    [][/\ (warmPc = "loop" /\ batchIdx <= Len(batches) /\ Len(batches[batchIdx]) = 0)
            => /\ warmPc' = "loop"
               /\ OfBatch(batchIdx) = {}
               /\ batchIdx' \in {batchIdx, batchIdx + 1}
               /\ batchIdx' = batchIdx + 1 => (clock' = clock /\ goroutines' = goroutines)
       /\ (warmPc \in {"loop", "delay"} /\ warmPc' = "spawn")
            => /\ Len(batches[batchIdx]) > 0
               /\ batchIdx' = batchIdx
               /\ (clock' - clock) \in OwnDelay(batchIdx)
               /\ batchIdx \in {2, 3} => warmPc = "delay"
       /\ (warmPc = "loop" /\ warmPc' = "delay")
            => clock' = clock /\ batchIdx \in {2, 3} /\ Len(batches[batchIdx]) > 0
       /\ \A g \in DOMAIN goroutines :
             (Sends(g) /\ g[1] = 3 /\ Len(batches[2]) = 0)
             => IF Len(batches[1]) > 0
                THEN (clock' - firstRequestAt'[1] - 100 * ticks') \in 100..300
                ELSE (clock' - 100 * ticks') \in 100..300
      ]_vars

\* C36 witness: on a page of one image and nothing else the request of the
\* image is in flight 100 ms after the call of Warmup, no other request
\* having been sent
C36_Witness ==
    /\ warmPc # "idle"
    /\ Len(batches) = 3
    /\ batches[1] = << >> /\ batches[2] = << >> /\ batches[3] # << >>
    /\ OfBatch(3) \cap InFlight # {}
    /\ firstRequestAt = <<100>>
    /\ clock = 100

\* C35: when Warmup returns nil after the navigation has brought an HTML
\* page, every URL of the page has been requested; a Warmup whose context
\* was cancelled before that returns the context's error
C35_NilMeansAllRequested ==
    (warmPc = "returned" /\ warmCall.nav = "html" /\ warmRet[1] = "nil")
    => \A u \in PageUrls : \E g \in Requested(goroutines) : ResOf(g).url = u



(***************************************************************************)
(* Cookie jar with the clock advancing: the order of Get, the Cookie       *)
(* header, hosts with ports and IPv6 literals, and the sweep of expired    *)
(* cookies                                                                 *)
(***************************************************************************)
MaxJarTicks == 2

\* the comparison handed to sort.Slice as it would be with the older path
\* rule "shorter first"
less_ShorterPathFirst(a, b) ==
    IF Len(a.Path) # Len(b.Path)
    THEN Len(a.Path) < Len(b.Path)
    ELSE a.CreatedAt < b.CreatedAt

\* Get, the comparison handed to sort.Slice: longer path first, then older
\* creation time first
less(a, b) ==
    IF Len(a.Path) # Len(b.Path)
    THEN Len(a.Path) > Len(b.Path)
    ELSE a.CreatedAt < b.CreatedAt

\* CookieJar.Get: the slices it may return.  The matches are collected in
\* the iteration order of the maps and sort.Slice is not stable, so every
\* order of the matches in which no cookie stands before one that is less
\* than it is possible
GetResults(jar, requestHost, requestPath, requestSecure, t) ==
    LET refs == GetMatches(jar, requestHost, requestPath, requestSecure, t)
        n == Cardinality(refs)
        at(r) == jar[r[1]][r[2]]
    IN  {[i \in 1..n |-> at(o[i])] :
            o \in {p \in Orders(refs) :
                      \A i, k \in 1..n : i < k => ~less(at(p[k]), at(p[i]))}}

RECURSIVE Join(_, _)
\* strings.Join(parts, sep)
Join(parts, sep) ==
    IF parts = << >> THEN EmptyStr
    ELSE IF Len(parts) = 1 THEN parts[1]
    ELSE parts[1] \o sep \o Join(Tail(parts), sep)

\* BuildCookieHeader, from the slice that Get returned
CookieHeader(list) ==
    IF Len(list) = 0
    THEN EmptyStr
    ELSE Join([i \in 1..Len(list) |-> list[i].Name \o <<"=">> \o list[i].Value], <<";", " ">>)

\* hosts: "e.t", "E.t:8", "E.T:9", "[::1]", "[::1]:8", "[::1]:9"
hostET == <<"e", ".", "t">>
hostETPort == <<"E", ".", "t", ":", "8">>
hostETOther == <<"E", ".", "T", ":", "9">>
hostV6 == <<"[", ":", ":", "1", "]">>
hostV6Port == <<"[", ":", ":", "1", "]", ":", "8">>
hostV6Other == <<"[", ":", ":", "1", "]", ":", "9">>

\* the calls offered to Set while the clock advances: host-only cookies set
\* from a host with capitals and a port, from the plain host, from an IPv6
\* literal with and without a port; paths / and /a; cookies that expire at
\* 1 and at 2; a cookie whose Path attribute "a" does not begin with "/";
\* a cookie with Max-Age 1 and no Expires
ClockSets ==
    {<<hostETPort, Cookie(<<"a">>, <<"1">>, EmptyStr, EmptyStr, Nil, FALSE)>>,
     <<hostET, Cookie(<<"a">>, <<"2">>, EmptyStr, EmptyStr, Nil, FALSE)>>,
     <<hostET, Cookie(<<"b">>, <<"1">>, EmptyStr, <<"/", "a">>, Nil, FALSE)>>,
     <<hostET, Cookie(<<"c">>, <<"1">>, EmptyStr, EmptyStr, <<2>>, FALSE)>>,
     <<hostV6Port, Cookie(<<"a">>, <<"1">>, EmptyStr, EmptyStr, Nil, FALSE)>>,
     <<hostV6, Cookie(<<"b">>, <<"1">>, EmptyStr, <<"/", "a">>, <<1>>, FALSE)>>,
     <<hostET, Cookie(<<"a">>, <<"2">>, EmptyStr, <<"a">>, Nil, FALSE)>>,
     <<hostET, [Cookie(<<"c">>, <<"1">>, EmptyStr, EmptyStr, Nil, FALSE)
                  EXCEPT !.MaxAge = 1]>>}

\* the requests for which the Cookie header is built
ClockHosts == {hostET, hostETOther, hostV6, hostV6Other}
ClockPaths == {<<"/", "a">>, <<"/">>}

\* snapshots offered to Import: a bucket whose only cookie has expired (the
\* bucket is made and stays empty), and two cookies of one path with the
\* creation time 1
ClockSnapshots ==
    {[d \in {hostET} |->
        <<[State(<<"x">>, <<"1">>, hostET, EmptyStr) EXCEPT !.Expires = <<0>>]>>],
     [d \in {hostET} |->
        <<[State(<<"x">>, <<"1">>, hostET, EmptyStr) EXCEPT !.CreatedAt = <<1>>],
          [State(<<"y">>, <<"1">>, hostET, EmptyStr) EXCEPT !.CreatedAt = <<1>>]>>]}

\* time passes
JarTick ==
    /\ now < 1 + MaxJarTicks
    /\ now' = now + 1
    /\ UNCHANGED <<jarVars, tlsVars, warmVars, planVars, lockVars, fastVars>>

\* BuildCookieHeader(requestHost, requestPath, requestSecure): the jar is
\* only read; the call record keeps the slice Get returned and the header
JarBuildCookieHeader(requestHost, requestPath, requestSecure) ==
    /\ \E list \in GetResults(cookies, requestHost, requestPath, requestSecure, now) :
          jarCall' = JarCall("BuildCookieHeader",
                             <<requestHost, requestPath, requestSecure, list,
                               CookieHeader(list)>>)
    /\ UNCHANGED <<cookies, now, tlsVars, warmVars, planVars, lockVars, fastVars>>

JarClockNext ==
    \/ \E in \in ClockSets : JarSet(in[1], in[2], FALSE)
    \/ \E h \in ClockHosts, p \in ClockPaths : JarBuildCookieHeader(h, p, FALSE)
    \/ JarClearExpired
    \/ \E snap \in ClockSnapshots : JarImport(snap)
    \/ JarTick

SpecJarClock == SpecJarInit /\ [][JarClockNext]_vars


\* the cookie stored at a reference of the jar
CookieAt(r) == cookies[r[1]][r[2]]

\* the step is a call of BuildCookieHeader
IsBuildCookieHeader == jarCall'.op = "BuildCookieHeader" /\ now' = now

\* "name=value" of a cookie
Pair(c) == c.Name \o <<"=">> \o c.Value

RECURSIVE EndOfPair(_, _)
\* the position in the header at which the pair of list[i] ends, when the
\* pairs are written one after the other with "; " between them
EndOfPair(list, i) ==
    IF i = 0 THEN -2 ELSE EndOfPair(list, i - 1) + 2 + Len(Pair(list[i]))

\* C27: Get returns exactly the matching cookies, longer paths first and,
\* among paths of one length, earlier creation first; BuildCookieHeader
\* writes them in that order as name=value joined by "; ", and writes the
\* empty string when there is none
C27_SortedCookieHeader ==
    [][IsBuildCookieHeader =>
        LET list == jarCall'.args[4]
            header == jarCall'.args[5]
            n == Len(list)
            matching == GetMatches(cookies, jarCall'.args[1], jarCall'.args[2],
                                   jarCall'.args[3], now)
        IN  /\ n = Cardinality(matching)
            /\ {list[i] : i \in 1..n} = {CookieAt(r) : r \in matching}
            /\ \A i, k \in 1..n :
                 i < k => \/ Len(list[i].Path) > Len(list[k].Path)
                          \/ /\ Len(list[i].Path) = Len(list[k].Path)
                             /\ list[i].CreatedAt <= list[k].CreatedAt
            /\ n = 0 => header = EmptyStr
            /\ n > 0 => Len(header) = EndOfPair(list, n)
            /\ \A i \in 1..n :
                 /\ SubSeq(header, EndOfPair(list, i) - Len(Pair(list[i])) + 1,
                           EndOfPair(list, i)) = Pair(list[i])
                 /\ i < n => SubSeq(header, EndOfPair(list, i) + 1,
                                    EndOfPair(list, i) + 2) = <<";", " ">>
      ]_vars

\* C27 witness: a header of two cookies in which the cookie of the longer
\* path comes first although it was created later
C27_Witness ==
    /\ jarCall.op = "BuildCookieHeader"
    /\ Len(jarCall.args[4]) = 2
    /\ Len(jarCall.args[4][1].Path) > Len(jarCall.args[4][2].Path)
    /\ jarCall.args[4][1].CreatedAt > jarCall.args[4][2].CreatedAt
    /\ jarCall.args[5] = <<"b", "=", "1", ";", " ", "a", "=", "1">>

\* the hosts of the claim and the host each of them denotes
DenotedHost ==
    [h \in {hostET, hostETPort, hostETOther, hostV6, hostV6Port, hostV6Other} |->
        IF h \in {hostET, hostETPort, hostETOther} THEN <<"e", ".", "t">>
        ELSE <<"[", ":", ":", "1", "]">>]

\* C29: a host-only cookie is kept under the host its request host denotes
\* (lower case, no port, IPv6 brackets and colons kept), and Get returns
\* it for exactly the request hosts that denote that host
C29_HostCaseAndPortIgnored ==
    /\ jarCall.op = "Set" /\ jarCall.args[2].Domain = EmptyStr
         => \E r \in JarRefs(cookies) :
               /\ r[1] = DenotedHost[jarCall.args[1]]
               /\ CookieAt(r).Name = jarCall.args[2].Name
               /\ CookieAt(r).Value = jarCall.args[2].Value
    /\ \A r \in JarRefs(cookies) :
         (CookieAt(r).HostOnly /\ ~Expired(CookieAt(r).Expires, now))
         => \A h \in DOMAIN DenotedHost :
               (r \in GetMatches(cookies, h, CookieAt(r).Path, FALSE, now))
               <=> DenotedHost[h] = r[1]

\* C29 witness: the cookie a=1 was set from "[::1]:8" and is in the header
\* built for "[::1]:9"
C29_Witness ==
    /\ jarCall.op = "BuildCookieHeader"
    /\ jarCall.args[1] = hostV6Other
    /\ jarCall.args[5] = <<"a", "=", "1">>
    /\ hostV6 \in DOMAIN cookies

\* the expiry of the cookie has passed at time t
ExpiryPassed(c, t) == c.Expires # Nil /\ c.Expires[1] < t

\* C30: ClearExpired removes the cookies whose expiry has passed and no
\* other, changes no cookie that stays, leaves no empty bucket, and Count
\* afterwards is the number of unexpired cookies before
C30_ClearExpiredFrame ==
    [][(jarCall'.op = "ClearExpired" /\ now' = now) =>
        LET stay == {r \in JarRefs(cookies) : ~ExpiryPassed(CookieAt(r), now)}
        IN  /\ JarRefs(cookies') = stay
            /\ \A r \in stay : cookies'[r[1]][r[2]] = CookieAt(r)
            /\ \A d \in DOMAIN cookies' : DOMAIN cookies'[d] # {}
            /\ Count(cookies') = Cardinality(stay)
      ]_vars

\* C30 witness: a sweep at time 3 has deleted a cookie and has kept another
C30_Witness ==
    /\ jarCall.op = "ClearExpired"
    /\ jarCall.args[1] >= 1
    /\ Count(cookies) >= 1
    /\ now = 3

\* request paths: the empty path and paths that begin with "/"
RequestPaths ==
    {EmptyStr, <<"/">>, <<"/", "a">>, <<"/", "a", "/">>, <<"/", "b", "/", "a">>}

\* the Path attribute is empty or does not begin with "/"
NoSlashPath(cookie) == cookie.Path = EmptyStr \/ Head(cookie.Path) # "/"

\* C31: Set stores a cookie whose Path attribute is empty or does not begin
\* with "/" under the path "/", and Get then returns it for every request
\* path on its host
C31_DefaultPath ==
    (jarCall.op = "Set" /\ NoSlashPath(jarCall.args[2]))
    => \E r \in JarRefs(cookies) :
          /\ r[1] = DenotedHost[jarCall.args[1]]
          /\ CookieAt(r).Name = jarCall.args[2].Name
          /\ CookieAt(r).Value = jarCall.args[2].Value
          /\ CookieAt(r).Path = <<"/">>
          /\ ~Expired(CookieAt(r).Expires, now)
               => \A p \in RequestPaths :
                     r \in GetMatches(cookies, jarCall.args[1], p, FALSE, now)

\* C31 witness: the cookie a=2 was set with the Path attribute "a" and is
\* stored under the path "/"
C31_Witness ==
    /\ jarCall.op = "Set"
    /\ jarCall.args[2].Path = <<"a">>
    /\ \E r \in JarRefs(cookies) :
          /\ CookieAt(r).Name = <<"a">>
          /\ CookieAt(r).Path = <<"/">>
          /\ r \in GetMatches(cookies, hostET, <<"/", "b", "/", "a">>, FALSE, now)

\* the Max-Age of the cookie, which has no Expires time, has run out at time t
MaxAgeElapsed(c, t) == c.MaxAge > 0 /\ c.Expires = Nil /\ t - c.CreatedAt >= c.MaxAge

\* C34: a cookie stored with a positive Max-Age and no Expires time is no
\* longer returned by Get, and is removed by ClearExpired, once Max-Age
\* seconds have passed since it was set
C34_MaxAgeExpires ==
    /\ [](\A r \in JarRefs(cookies) :
            MaxAgeElapsed(CookieAt(r), now)
            => \A h \in ClockHosts, p \in RequestPaths :
                  r \notin GetMatches(cookies, h, p, FALSE, now))
    /\ [][(jarCall'.op = "ClearExpired" /\ now' = now)
            => \A r \in JarRefs(cookies') :
                  ~MaxAgeElapsed(cookies'[r[1]][r[2]], now)]_vars

\* the step is a call of Set
IsSet == jarCall'.op = "Set" /\ now' = now

\* the references of the cookies of a jar that are stored for the host under
\* the path and the name
StoredAs(jar, host, path, name) ==
    {r \in JarRefs(jar) : /\ r[1] = host
                          /\ jar[r[1]][r[2]].Path = path
                          /\ jar[r[1]][r[2]].Name = name}

\* C39: Set of a cookie whose stored domain, normalized path and name equal
\* those of a stored cookie replaces that cookie: Count is unchanged and Get
\* returns only the new value; a cookie that differs in one of the three is
\* kept as it was, and a Set that meets no such cookie adds an entry
C39_SetReplacesSameKey ==
    [][(IsSet /\ jarCall'.args[2].Domain = EmptyStr) =>
        LET c == jarCall'.args[2]
            host == DenotedHost[jarCall'.args[1]]
            path == IF NoSlashPath(c) THEN <<"/">> ELSE c.Path
            old == StoredAs(cookies, host, path, c.Name)
            new == StoredAs(cookies', host, path, c.Name)
        IN  /\ Cardinality(new) = 1
            /\ \A r \in new : cookies'[r[1]][r[2]].Value = c.Value
            /\ old # {} => Count(cookies') = Count(cookies)
            /\ old = {} => Count(cookies') = Count(cookies) + 1
            /\ \A r \in JarRefs(cookies) \ old :
                 /\ r \in JarRefs(cookies')
                 /\ cookies'[r[1]][r[2]] = CookieAt(r)
            /\ \A p \in RequestPaths :
                 \A r \in GetMatches(cookies', jarCall'.args[1], p, FALSE, now) :
                    (r[1] = host /\ cookies'[r[1]][r[2]].Path = path
                                /\ cookies'[r[1]][r[2]].Name = c.Name)
                    => cookies'[r[1]][r[2]].Value = c.Value
      ]_vars

\* C39 witness: Set of a=2 from "e.t" has replaced the cookie a=1 that was
\* set from "E.t:8" (Count has not grown), and the cookie c of the same host
\* and path is still there
C39_Witness ==
    /\ jarCall.op = "Set"
    /\ jarCall.args[1] = hostET
    /\ jarCall.args[2].Name = <<"a">>
    /\ jarCall.args[4] = 0
    /\ \E r \in StoredAs(cookies, hostET, <<"/">>, <<"a">>) :
          CookieAt(r).Value = <<"2">> /\ CookieAt(r).CreatedAt = now
    /\ StoredAs(cookies, hostET, <<"/">>, <<"c">>) # {}
    /\ Count(cookies) = 2


(***************************************************************************)
(* Warmup planning: discovery over the tokens of the HTML, URL resolution, *)
(* grouping and the headers of each subresource request.                   *)
(*                                                                         *)
(* A URL is [host, path] with path the sequence of its segments (the       *)
(* scheme is https throughout).  A token of the HTML tokenizer is          *)
(* [type, name, attrs]; attrs is the sequence of [key, val] as written in  *)
(* the tag.  The value of href and src is a reference                      *)
(* [kind, host, path]; the value of rel and as is a string.                *)
(***************************************************************************)
MaxPlanRuns == 2

URL(host, path) == [host |-> host, path |-> path]

\* the string ""
NoURL == URL("", << >>)

\* the attribute value "" of href and src
EmptyRef == [kind |-> "empty", host |-> "", path |-> << >>]

\* "https://host/path", "//host/path", "/path" and "path"
AbsRef(host, path) == [kind |-> "absolute", host |-> host, path |-> path]
SchemeRef(host, path) == [kind |-> "scheme-relative", host |-> host, path |-> path]
RootRef(path) == [kind |-> "root-relative", host |-> "", path |-> path]
RelRef(path) == [kind |-> "relative", host |-> "", path |-> path]

\* the directory of a path: everything up to its last segment
Dir(path) == IF path = << >> THEN << >> ELSE SubSeq(path, 1, Len(path) - 1)

\* resolveURL(base, ref)
resolveURL(base, ref) ==
    CASE ref.kind \in {"absolute", "scheme-relative"} -> URL(ref.host, ref.path)
      [] ref.kind = "root-relative" -> URL(base.host, ref.path)
      [] ref.kind = "relative" -> URL(base.host, Dir(base.path) \o ref.path)
      [] OTHER -> base

StartTagToken == "StartTag"
SelfClosingTagToken == "SelfClosingTag"
EndTagToken == "EndTag"
TextToken == "Text"

Attr(key, val) == [key |-> key, val |-> val]
Token(type, name, attrs) == [type |-> type, name |-> name, attrs |-> attrs]

\* the value of the last attribute named key, or none
LastAttr(attrs, key, none) ==
    LET at == {i \in 1..Len(attrs) : attrs[i].key = key}
    IN  IF at = {} THEN none ELSE attrs[CHOOSE i \in at : \A k \in at : k <= i].val

\* parseLinkAttrs: href, rel and as of a link tag; a later attribute of
\* the same name overwrites an earlier one
parseLinkAttrs(attrs) ==
    [href |-> LastAttr(attrs, "href", EmptyRef),
     rel |-> ToLower(LastAttr(attrs, "rel", EmptyStr)),
     as |-> ToLower(LastAttr(attrs, "as", EmptyStr))]

\* getAttr: the value of the first attribute named name, or ""
getAttr(attrs, name) ==
    LET at == {i \in 1..Len(attrs) : attrs[i].key = name}
    IN  IF at = {} THEN EmptyRef ELSE attrs[CHOOSE i \in at : \A k \in at : i <= k].val

sStylesheet == <<"s", "t", "y", "l", "e", "s", "h", "e", "e", "t">>
sIcon == <<"i", "c", "o", "n">>
sPreload == <<"p", "r", "e", "l", "o", "a", "d">>
sStyle == <<"s", "t", "y", "l", "e">>
sScript == <<"s", "c", "r", "i", "p", "t">>
sImage == <<"i", "m", "a", "g", "e">>
sFont == <<"f", "o", "n", "t">>

\* the switch over rel and as of a link tag: Nil when the tag matches no type
linkType(rel, as) ==
    CASE rel = sStylesheet -> <<resourceCSS>>
      [] rel = sIcon -> <<resourceImage>>
      [] rel = sPreload /\ as = sStyle -> <<resourceCSS>>
      [] rel = sPreload /\ as = sScript -> <<resourceJS>>
      [] rel = sPreload /\ as = sImage -> <<resourceImage>>
      [] rel = sPreload /\ as = sFont -> <<resourceFont>>
      [] OTHER -> Nil

\* the switch over the tag name as it would be with rel compared as written
matchToken_CaseSensitive(tok, baseURL) ==
    IF tok.type \notin {StartTagToken, SelfClosingTagToken} \/ tok.attrs = << >>
    THEN Nil
    ELSE CASE tok.name = "link" ->
                LET href == LastAttr(tok.attrs, "href", EmptyRef)
                    typ == linkType(LastAttr(tok.attrs, "rel", EmptyStr),
                                    LastAttr(tok.attrs, "as", EmptyStr))
                IN  IF href = EmptyRef \/ typ = Nil
                    THEN Nil
                    ELSE <<subresource(resolveURL(baseURL, href), typ[1])>>
           [] tok.name = "script" ->
                LET src == getAttr(tok.attrs, "src")
                IN  IF src = EmptyRef
                    THEN Nil
                    ELSE <<subresource(resolveURL(baseURL, src), resourceJS)>>
           [] tok.name = "img" ->
                LET src == getAttr(tok.attrs, "src")
                IN  IF src = EmptyRef
                    THEN Nil
                    ELSE <<subresource(resolveURL(baseURL, src), resourceImage)>>
           [] OTHER -> Nil

\* parseSubresources, the body of the loop up to the test of seen: the
\* resource a token stands for with its resolved URL, Nil when the token is
\* skipped
matchToken(tok, baseURL) ==
    IF tok.type \notin {StartTagToken, SelfClosingTagToken} \/ tok.attrs = << >>
    THEN Nil
    ELSE CASE tok.name = "link" ->
                LET a == parseLinkAttrs(tok.attrs)
                    typ == linkType(a.rel, a.as)
                IN  IF a.href = EmptyRef \/ typ = Nil
                    THEN Nil
                    ELSE <<subresource(resolveURL(baseURL, a.href), typ[1])>>
           [] tok.name = "script" ->
                LET src == getAttr(tok.attrs, "src")
                IN  IF src = EmptyRef
                    THEN Nil
                    ELSE <<subresource(resolveURL(baseURL, src), resourceJS)>>
           [] tok.name = "img" ->
                LET src == getAttr(tok.attrs, "src")
                IN  IF src = EmptyRef
                    THEN Nil
                    ELSE <<subresource(resolveURL(baseURL, src), resourceImage)>>
           [] OTHER -> Nil

\* the matching tags of a document in document order
matchedTags(doc, baseURL) ==
    LET at == SelectSeq([i \in 1..Len(doc) |-> i],
                        LAMBDA i : matchToken(doc[i], baseURL) # Nil)
    IN  [k \in 1..Len(at) |-> matchToken(doc[at[k]], baseURL)[1]]

\* parseSubresources as it would be with a map seen that outlives the call
seenMade_Kept ==
    UNION {{planRuns[i].resources[k].url : k \in 1..Len(planRuns[i].resources)} :
           i \in 1..Len(planRuns)}

\* parseSubresources: seen := make(map[string]bool), empty at every call
seenMade == {}

\* parseSubresources(body, baseURL) as it would be without the map seen
discover_NoDedup(doc, baseURL) == parseSubresources_NoDedup(matchedTags(doc, baseURL))

\* parseSubresources(body, baseURL) over the tokens of body
discover(doc, baseURL) == parseLoop(matchedTags(doc, baseURL), seenMade, << >>)

\* the site (registrable domain) of a host
SiteOf(host) ==
    CASE host \in {"example.com", "www.example.com", "cdn.example.com"} -> "example.com"
      [] OTHER -> host

\* fingerprint.StyleContext, ScriptContext, ImageContext and FontContext
\* followed by fingerprint.GenerateSecFetchHeaders
GenerateSecFetchHeaders(typ, pageURL, targetURL) ==
    [Site |-> CASE pageURL.host = targetURL.host -> "same-origin"
                [] SiteOf(pageURL.host) = SiteOf(targetURL.host) -> "same-site"
                [] OTHER -> "cross-site",
     Mode |-> IF typ = resourceFont THEN "cors" ELSE "no-cors",
     Dest |-> CASE typ = resourceCSS -> "style"
                [] typ = resourceJS -> "script"
                [] typ = resourceImage -> "image"
                [] typ = resourceFont -> "font"]

\* buildSubresourceHeaders as it would be with the target as the Referer
buildSubresourceHeaders_RefererIsTarget(typ, pageURL, targetURL) ==
    [Accept |-> "*/*", Priority |-> "u=1", Referer |-> targetURL,
     SecFetchSite |-> "same-origin", SecFetchMode |-> "no-cors", SecFetchDest |-> "script"]

\* buildSubresourceHeaders
buildSubresourceHeaders(typ, pageURL, targetURL) ==
    LET accept == CASE typ = resourceCSS -> "text/css,*/*;q=0.1"
                    [] typ = resourceJS -> "*/*"
                    [] typ = resourceImage ->
                         "image/avif,image/webp,image/apng,image/svg+xml,image/*,*/*;q=0.8"
                    [] typ = resourceFont -> "*/*"
        priority == CASE typ = resourceCSS -> "u=0, i"
                      [] typ = resourceJS -> "u=1"
                      [] typ = resourceImage -> "u=2"
                      [] typ = resourceFont -> "u=3"
        secFetch == GenerateSecFetchHeaders(typ, pageURL, targetURL)
    IN  [Accept |-> accept, Priority |-> priority, Referer |-> pageURL,
         SecFetchSite |-> secFetch.Site, SecFetchMode |-> secFetch.Mode,
         SecFetchDest |-> secFetch.Dest]

\* fetchBatch: the request built for each subresource of a batch
BatchRequests(batch, pageURL) ==
    [k \in 1..Len(batch) |->
        [Method |-> "GET", URL |-> batch[k].url,
         Headers |-> buildSubresourceHeaders(batch[k].typ, pageURL, batch[k].url)]]

\* Warmup, from discovery to the requests of the three batches, for an
\* HTML response with the given body and FinalURL
WarmupPlan(doc, url, finalURL) ==
    LET resources == discover(doc, url)
        grouped == groupByPriority(resources)
        pageURL == IF finalURL = NoURL THEN url ELSE finalURL
    IN  [resources |-> resources,
         batches |-> grouped,
         pageURL |-> pageURL,
         requests |-> [i \in 1..3 |-> BatchRequests(grouped[i], pageURL)]]

(***************************************************************************)
(* Documents and navigations handed to the planning                        *)
(***************************************************************************)
Link(attrs) == Token(SelfClosingTagToken, "link", attrs)
Script(attrs) == Token(StartTagToken, "script", attrs)
Img(attrs) == Token(StartTagToken, "img", attrs)
End(name) == Token(EndTagToken, name, << >>)
Text == Token(TextToken, "", << >>)

Stylesheet(ref) == Link(<<Attr("rel", sStylesheet), Attr("href", ref)>>)
Icon(ref) == Link(<<Attr("rel", sIcon), Attr("href", ref)>>)
Preload(ref, as) == Link(<<Attr("rel", sPreload), Attr("href", ref), Attr("as", as)>>)
ScriptSrc(ref) == Script(<<Attr("src", ref)>>)
ImgSrc(ref) == Img(<<Attr("src", ref)>>)

\* <link rel="stylesheet" href="/css/main.css"> ... <script>inline</script>
DocTypes ==
    <<Token(StartTagToken, "html", << >>), Token(StartTagToken, "head", << >>),
      Stylesheet(RootRef(<<"css", "main.css">>)),
      Stylesheet(RootRef(<<"css", "theme.css">>)),
      Icon(RootRef(<<"favicon.ico">>)),
      Preload(RootRef(<<"fonts", "roboto.woff2">>), sFont),
      Preload(RootRef(<<"js", "preloaded.js">>), sScript),
      Preload(RootRef(<<"img", "hero.webp">>), sImage),
      Preload(RootRef(<<"css", "critical.css">>), sStyle),
      ScriptSrc(RootRef(<<"js", "analytics.js">>)), End("script"),
      ScriptSrc(RootRef(<<"js", "app.js">>)), End("script"),
      End("head"), Token(StartTagToken, "body", << >>),
      ImgSrc(RootRef(<<"img", "logo.png">>)),
      ImgSrc(RootRef(<<"img", "banner.jpg">>)),
      Token(StartTagToken, "script", << >>), Text, End("script"),
      End("body"), End("html")>>

\* relative, scheme-relative and absolute references
DocRelative ==
    <<Stylesheet(RelRef(<<"css", "style.css">>)),
      ScriptSrc(RelRef(<<"js", "app.js">>)), End("script"),
      ImgSrc(SchemeRef("cdn.example.com", <<"logo.png">>)),
      ImgSrc(AbsRef("other.com", <<"img.jpg">>))>>

\* rel and as written with capitals
DocCapitals ==
    <<Link(<<Attr("rel", <<"s", "T", "y", "l", "E", "s", "h", "E", "E", "T">>),
             Attr("href", RootRef(<<"a.css">>))>>),
      Link(<<Attr("rel", <<"p", "r", "E", "l", "O", "A", "d">>),
             Attr("href", RelRef(<<"f.woff2">>)),
             Attr("as", <<"f", "O", "n", "T">>)>>),
      Link(<<Attr("href", RootRef(<<"i.ico">>)), Attr("rel", <<"i", "c", "O", "n">>)>>)>>

\* tags that stand for no resource, with one image after them
DocUnmatched ==
    <<Link(<<Attr("rel", <<"c", "a", "n", "o", "n", "i", "c", "a", "l">>),
             Attr("href", RootRef(<<"page">>))>>),
      Link(<<Attr("rel", <<"s", "h", "o", "r", "t", "c", "u", "t", " ", "i", "c", "o", "n">>),
             Attr("href", RootRef(<<"favicon.ico">>))>>),
      Preload(RootRef(<<"data.json">>), <<"f", "e", "t", "c", "h">>),
      Link(<<Attr("rel", sPreload), Attr("href", RootRef(<<"x.bin">>))>>),
      Link(<<Attr("href", RootRef(<<"only.css">>))>>),
      Link(<<Attr("rel", sStylesheet)>>),
      Stylesheet(EmptyRef),
      Script(<<Attr("type", <<"m", "o", "d", "u", "l", "e">>)>>), Text, End("script"),
      Token(StartTagToken, "script", << >>), Text, End("script"),
      ScriptSrc(EmptyRef), End("script"),
      Img(<<Attr("alt", <<"l", "o", "g", "o">>)>>),
      Token(StartTagToken, "a", <<Attr("href", RootRef(<<"next">>))>>), Text, End("a"),
      Token(EndTagToken, "img", <<Attr("src", RootRef(<<"end.png">>))>>),
      Token(StartTagToken, "video", <<Attr("src", RootRef(<<"v.mp4">>))>>),
      ImgSrc(RootRef(<<"img", "logo.png">>))>>

\* one URL under several tags, and attributes written twice
DocDuplicates ==
    <<Stylesheet(RootRef(<<"css", "main.css">>)),
      Stylesheet(RootRef(<<"css", "main.css">>)),
      ScriptSrc(RootRef(<<"css", "main.css">>)), End("script"),
      ImgSrc(RelRef(<<"logo.png">>)),
      ImgSrc(RootRef(<<"pages", "logo.png">>)),
      Icon(AbsRef("example.com", <<"pages", "logo.png">>)),
      Link(<<Attr("rel", sStylesheet), Attr("href", RootRef(<<"first.css">>)),
             Attr("href", RootRef(<<"last.css">>))>>),
      Img(<<Attr("src", RootRef(<<"first.png">>)), Attr("src", RootRef(<<"last.png">>))>>)>>

\* images, scripts, fonts and stylesheets in an order that is not the
\* order of the batches
DocMixed ==
    <<ImgSrc(RootRef(<<"1.png">>)),
      ScriptSrc(RelRef(<<"2.js">>)), End("script"),
      Preload(AbsRef("cdn.example.com", <<"3.woff2">>), sFont),
      ImgSrc(AbsRef("other.com", <<"4.png">>)),
      Stylesheet(RelRef(<<"5.css">>)),
      ScriptSrc(SchemeRef("www.example.com", <<"6.js">>)), End("script"),
      Stylesheet(AbsRef("www.example.com", <<"7.css">>))>>

\* n images /img/1.png ... /img/n.png
Images(n) == [k \in 1..n |-> ImgSrc(RootRef(<<"img", ToString(k)>>))]

\* more distinct images than the cap admits
DocManyImages == Images(maxSubresources + 10)

\* the cap reached exactly, each image written twice, then a stylesheet
DocCapReached ==
    Images(maxSubresources - 1) \o Images(maxSubresources)
        \o <<Stylesheet(RootRef(<<"late.css">>))>>

\* stylesheets and scripts beyond the cap
DocManyMixed ==
    [k \in 1..(maxSubresources + 2) |->
        IF k % 2 = 0 THEN Stylesheet(RelRef(<<"c", ToString(k)>>))
                     ELSE ScriptSrc(RelRef(<<"j", ToString(k)>>))]

Docs ==
    {DocTypes, DocRelative, DocCapitals, DocUnmatched, DocDuplicates, DocMixed,
     DocManyImages, DocCapReached, DocManyMixed,
     << >>, <<Text>>, <<Stylesheet(RelRef(<<"style.css">>))>>}

\* the URL passed to Warmup
PageA == URL("example.com", <<"pages", "index.html">>)

\* where the navigation ended: no FinalURL, no redirect, a redirect to
\* another directory, to another host, to another site
FinalURLs ==
    {NoURL, PageA, URL("example.com", <<"app", "home">>),
     URL("www.example.com", <<"pages", "index.html">>), URL("other.com", << >>)}

(***************************************************************************)
(* Actions of the planning                                                 *)
(***************************************************************************)
\* the navigation of Warmup(url) returned an HTML document from finalURL
PlanNavigate(doc, url, finalURL) ==
    /\ planIn' = [body |-> doc, url |-> url, finalURL |-> finalURL]
    /\ planRuns' = << >>
    /\ UNCHANGED <<now, jarVars, tlsVars, warmVars, lockVars, fastVars>>

\* one run of Warmup's lines from discovery to the requests
PlanRun ==
    /\ planIn # << >>
    /\ Len(planRuns) < MaxPlanRuns
    /\ planRuns' = Append(planRuns, WarmupPlan(planIn.body, planIn.url, planIn.finalURL))
    /\ UNCHANGED <<planIn, now, jarVars, tlsVars, warmVars, lockVars, fastVars>>

PlanNavigateAny == \E doc \in Docs, finalURL \in FinalURLs : PlanNavigate(doc, PageA, finalURL)

PlanNext ==
    \/ PlanNavigateAny
    \/ PlanRun

SpecPlanInit ==
    /\ PlanIdle
    /\ FastIdle
    /\ WarmIdle
    /\ LockIdle
    /\ now = 1
    /\ cookies = EmptyJar
    /\ jarCall = << >>
    /\ sessions = << >>
    /\ accessOrder = << >>
    /\ tlsCall = << >>
    /\ recency = << >>

SpecPlan == SpecPlanInit /\ [][PlanNext]_vars


(***************************************************************************)
(* Properties of the planning                                              *)
(***************************************************************************)
\* the elements of a sequence
Range(seq) == {seq[k] : k \in 1..Len(seq)}

\* the page the navigation ended on: the final URL after redirects, the
\* URL passed to Warmup when the response names none
EndedOn == IF planIn.finalURL = NoURL THEN planIn.url ELSE planIn.finalURL

\* C21: when the navigation was redirected from A to B, the subresources
\* planned are the references of the document resolved against B
C21_ResolvedAgainstFinalURL ==
    \A i \in 1..Len(planRuns) :
        planRuns[i].resources = discover(planIn.body, EndedOn)

\* C22: parseSubresources returns at most 50 resources and no resolved URL
\* twice, however often and under however many tags the URL occurs
C22_AtMostFiftyDistinct ==
    \A i \in 1..Len(planRuns) :
        LET res == planRuns[i].resources
        IN  /\ Len(res) <= 50
            /\ \A a, b \in 1..Len(res) : res[a].url = res[b].url => a = b

\* a document with URLs written twice whose distinct URLs reach the cap
C22_Witness ==
    /\ planIn # << >>
    /\ planIn.body = DocCapReached
    /\ Len(planRuns) >= 1
    /\ Len(planRuns[1].resources) = 50
    /\ Cardinality({planIn.body[k].attrs[1].val : k \in 1..Len(planIn.body)})
         < Len(planIn.body)

\* the rel and the as of a link tag, read without regard to case
RelOf(tok) == ToLower(LastAttr(tok.attrs, "rel", EmptyStr))
AsOf(tok) == ToLower(LastAttr(tok.attrs, "as", EmptyStr))

\* the reference a tag carries in its href (link) or src (script, img)
RefOf(tok) ==
    IF tok.name = "link" THEN LastAttr(tok.attrs, "href", EmptyRef)
                         ELSE getAttr(tok.attrs, "src")

\* the type the tag stands for by the table of the discovery, "none" for
\* every other tag
TypeByTag(tok) ==
    CASE tok.type \notin {StartTagToken, SelfClosingTagToken} -> "none"
      [] tok.name \notin {"link", "script", "img"} -> "none"
      [] RefOf(tok) = EmptyRef -> "none"
      [] tok.name = "script" -> resourceJS
      [] tok.name = "img" -> resourceImage
      [] RelOf(tok) = sStylesheet -> resourceCSS
      [] RelOf(tok) = sIcon -> resourceImage
      [] RelOf(tok) = sPreload /\ AsOf(tok) = sStyle -> resourceCSS
      [] RelOf(tok) = sPreload /\ AsOf(tok) = sScript -> resourceJS
      [] RelOf(tok) = sPreload /\ AsOf(tok) = sImage -> resourceImage
      [] RelOf(tok) = sPreload /\ AsOf(tok) = sFont -> resourceFont
      [] OTHER -> "none"

\* the positions of the document whose tag stands for a resource
Carriers(doc) == {k \in 1..Len(doc) : TypeByTag(doc[k]) # "none"}

\* the URL requested for the tag at position k
UrlAt(doc, k) == resolveURL(planIn.url, RefOf(doc[k]))

\* the first position of the document that carries the URL of position k
FirstOf(doc, k) ==
    CHOOSE f \in Carriers(doc) :
        /\ UrlAt(doc, f) = UrlAt(doc, k)
        /\ \A g \in Carriers(doc) : UrlAt(doc, g) = UrlAt(doc, f) => f <= g

\* C23: every resource discovered comes from a tag of the table with the
\* type the table gives, every such tag is discovered (up to the cap) and
\* the resources are in document order
C23_ClassifiedByTag ==
    \A i \in 1..Len(planRuns) :
        LET doc == planIn.body
            res == planRuns[i].resources
            firsts == {FirstOf(doc, k) : k \in Carriers(doc)}
        IN  /\ Len(res) <= Cardinality(firsts)
            /\ Len(res) < Cardinality(firsts) => Len(res) = 50
            /\ \A n \in 1..Len(res) :
                 \E f \in firsts :
                    /\ Cardinality({g \in firsts : g < f}) = n - 1
                    /\ res[n].url = UrlAt(doc, f)
                    /\ res[n].typ = TypeByTag(doc[f])

\* the document with a tag of every row of the table and an inline script
C23_Witness ==
    /\ planIn # << >>
    /\ planIn.body = DocTypes
    /\ Len(planRuns) >= 1
    /\ [k \in 1..Len(planRuns[1].resources) |-> planRuns[1].resources[k].typ]
         = <<resourceCSS, resourceCSS, resourceImage, resourceFont, resourceJS,
             resourceImage, resourceCSS, resourceJS, resourceJS, resourceImage,
             resourceImage>>

\* the headers fixed by the type of a subresource
HeadersByType(typ) ==
    CASE typ = resourceCSS ->
           [Accept |-> "text/css,*/*;q=0.1", Dest |-> "style", Mode |-> "no-cors",
            Priority |-> "u=0, i"]
      [] typ = resourceJS ->
           [Accept |-> "*/*", Dest |-> "script", Mode |-> "no-cors", Priority |-> "u=1"]
      [] typ = resourceImage ->
           [Accept |-> "image/avif,image/webp,image/apng,image/svg+xml,image/*,*/*;q=0.8",
            Dest |-> "image", Mode |-> "no-cors", Priority |-> "u=2"]
      [] typ = resourceFont ->
           [Accept |-> "*/*", Dest |-> "font", Mode |-> "cors", Priority |-> "u=3"]

\* C24: every subresource request carries the Accept, Sec-Fetch-Dest,
\* Sec-Fetch-Mode and Priority of its type, and the page URL as Referer
C24_HeadersByType ==
    \A i \in 1..Len(planRuns) :
        \A b \in 1..3 :
            /\ Len(planRuns[i].requests[b]) = Len(planRuns[i].batches[b])
            /\ \A k \in 1..Len(planRuns[i].requests[b]) :
                 LET req == planRuns[i].requests[b][k]
                     want == HeadersByType(planRuns[i].batches[b][k].typ)
                 IN  /\ req.URL = planRuns[i].batches[b][k].url
                     /\ req.Headers.Accept = want.Accept
                     /\ req.Headers.SecFetchDest = want.Dest
                     /\ req.Headers.SecFetchMode = want.Mode
                     /\ req.Headers.Priority = want.Priority
                     /\ req.Headers.Referer = EndedOn

\* requests of all four types planned for a page reached by a redirect
C24_Witness ==
    /\ planIn # << >>
    /\ planIn.finalURL \notin {NoURL, planIn.url}
    /\ Len(planRuns) >= 1
    /\ {r.typ : r \in Range(planRuns[1].resources)}
         = {resourceCSS, resourceJS, resourceImage, resourceFont}
    /\ \A b \in 1..3 : planRuns[1].requests[b] # << >>

BatchOfType(typ) ==
    CASE typ = resourceCSS -> 1
      [] typ = resourceFont -> 1
      [] typ = resourceJS -> 2
      [] typ = resourceImage -> 3

\* the places of the three batches: <<batch, index>>
Places(B) == UNION {{<<b, i>> : i \in 1..Len(B[b])} : b \in 1..3}

\* C37: groupByPriority partitions the resources: every resource stands at
\* exactly one place of the three batches, in the batch of its type, no
\* batch holds anything else, the resources of a batch stand in the order
\* of the input, and no resources give three empty batches
C37_GroupByPriorityPartitions ==
    \A n \in 1..Len(planRuns) :
       LET R == planRuns[n].resources
           B == planRuns[n].batches
           at(r) == {pl \in Places(B) : B[pl[1]][pl[2]] = r}
           pos(r) == CHOOSE k \in 1..Len(R) : R[k] = r
       IN  /\ Len(B) = 3
           /\ \A k \in 1..Len(R) :
                 /\ Cardinality(at(R[k])) = 1
                 /\ \A pl \in at(R[k]) : pl[1] = BatchOfType(R[k].typ)
           /\ \A pl \in Places(B) : B[pl[1]][pl[2]] \in Range(R)
           /\ Len(B[1]) + Len(B[2]) + Len(B[3]) = Len(R)
           /\ \A b \in 1..3 : \A i, k \in 1..Len(B[b]) :
                 i < k => pos(B[b][i]) < pos(B[b][k])
           /\ R = << >> => B = <<<< >>, << >>, << >>>>

\* C37 witness: a page whose first resource is an image and whose first
\* batch holds a font before a stylesheet, every batch being filled
C37_Witness ==
    \E n \in 1..Len(planRuns) :
       /\ planRuns[n].resources # << >>
       /\ planRuns[n].resources[1].typ = resourceImage
       /\ Len(planRuns[n].batches[1]) >= 2
       /\ planRuns[n].batches[1][1].typ = resourceFont
       /\ planRuns[n].batches[1][2].typ = resourceCSS
       /\ planRuns[n].batches[2] # << >>
       /\ planRuns[n].batches[3] # << >>


(***************************************************************************)
(* Cookie jar under concurrent calls.  Every method takes j.mu on entry    *)
(* and releases it on return (defer).  A call is taken in two steps: in    *)
(* the first it acquires the lock and does the first part of its body (a   *)
(* writer its first write to j.cookies, a reader its first read), in the   *)
(* second it does the rest and releases the lock.                          *)
(***************************************************************************)
MaxThreads == 3

Threads == 1..MaxThreads

\* the methods that take j.mu.Lock() and those that take j.mu.RLock()
Writers == {"Set", "SetSimple", "Import", "ImportV4", "Clear", "ClearExpired"}
Readers == {"Get", "GetAll", "Count", "Export", "BuildCookieHeader"}

\* the lock as it would be if every method took the read lock
LockOf_AlwaysRLock(op) == "RLock"

\* the lock a method takes on entry; BuildCookieHeader takes it through Get
LockOf(op) ==
    CASE op = "Set" -> "Lock"
      [] op = "Get" -> "RLock"
      [] op = "GetAll" -> "RLock"
      [] op = "SetSimple" -> "Lock"
      [] op = "Clear" -> "Lock"
      [] op = "ClearExpired" -> "Lock"
      [] op = "Count" -> "RLock"
      [] op = "Export" -> "RLock"
      [] op = "Import" -> "Lock"
      [] op = "ImportV4" -> "Lock"
      [] op = "BuildCookieHeader" -> "RLock"

\* sync.RWMutex: Lock returns when no writer and no reader holds the lock,
\* RLock when no writer holds it
Admits(m, kind) ==
    IF kind = "Lock" THEN m.w = 0 /\ m.r = {} ELSE m.w = 0

\* Lock / RLock taken by thread t
Acquire(m, kind, t) ==
    IF kind = "Lock" THEN [m EXCEPT !.w = t] ELSE [m EXCEPT !.r = @ \cup {t}]

\* Unlock / RUnlock by thread t
Release(m, kind, t) ==
    IF kind = "Lock" THEN [m EXCEPT !.w = 0] ELSE [m EXCEPT !.r = @ \ {t}]

\* the calls made by the threads: two cookies set from e.t, one of them
\* expired already; SetSimple; an Import and an ImportV4 of two cookies;
\* Clear, ClearExpired and the five readers
LockCalls ==
    {JarCall("Set", <<hostET, Cookie(<<"a">>, <<"1">>, EmptyStr, EmptyStr, Nil, FALSE), FALSE>>),
     JarCall("Set", <<hostET, Cookie(<<"c">>, <<"1">>, EmptyStr, EmptyStr, <<0>>, FALSE), FALSE>>),
     JarCall("SetSimple", <<<<"a">>, <<"1">>>>),
     JarCall("Import", <<[d \in {<<".", "e", ".", "t">>} |->
                            <<State(<<"x">>, <<"1">>, <<".", "e", ".", "t">>, EmptyStr),
                              State(<<"y">>, <<"1">>, <<".", "e", ".", "t">>, EmptyStr)>>]>>),
     JarCall("ImportV4", <<<<State(<<"a">>, <<"2">>, <<"E", ".", "t">>, EmptyStr),
                             State(<<"b">>, <<"2">>, <<"E", ".", "t">>, EmptyStr)>>>>),
     JarCall("Clear", << >>),
     JarCall("ClearExpired", << >>),
     JarCall("Get", <<hostET, <<"/">>, FALSE>>),
     JarCall("GetAll", << >>),
     JarCall("Count", << >>),
     JarCall("Export", << >>),
     JarCall("BuildCookieHeader", <<hostET, <<"/">>, FALSE>>)}

\* the jar when a writer returns, from the jar it found on entry
WriteResult(call, jar, t) ==
    CASE call.op = "Set" -> SetResult(jar, call.args[1], call.args[2], call.args[3], t)
      [] call.op = "SetSimple" -> SetSimpleResult(jar, call.args[1], call.args[2], t)
      [] call.op = "Import" -> ImportResult(jar, call.args[1], t)
      [] call.op = "ImportV4" -> ImportV4Result(jar, call.args[1], t)
      [] call.op = "Clear" -> EmptyJar
      [] call.op = "ClearExpired" -> ClearExpiredResult(jar, t)

\* the jar after the first write of a writer's body: the bucket made by
\* Set, SetSimple and Import; the first cookie stored by ImportV4; the
\* expired cookies of one bucket deleted with the bucket still in place;
\* Clear writes once
FirstWrite(call, jar, t) ==
    CASE call.op = "Set" -> {JarTouch(jar, NormalizeHost(call.args[1]))}
      [] call.op = "SetSimple" -> {JarTouch(jar, EmptyStr)}
      [] call.op = "Import" -> {JarTouch(jar, d) : d \in DOMAIN call.args[1]}
      [] call.op = "ImportV4" -> {ImportV4One(jar, Head(call.args[1]), t)}
      [] call.op = "Clear" -> {jar}
      [] call.op = "ClearExpired" ->
           {jar} \cup
           {[d \in DOMAIN jar |->
               IF d = e
               THEN [k \in {x \in DOMAIN jar[d] : ~Expired(jar[d][x].Expires, t)} |-> jar[d][k]]
               ELSE jar[d]] : e \in DOMAIN jar}

ThreadIdle == [pc |-> "idle", call |-> JarCall("none", << >>), base |-> EmptyJar]

\* thread t calls a method; the lock admits it and the first part of the
\* body runs: a writer writes for the first time, a reader reads the jar
LockBegin(t, call) ==
    /\ threads[t].pc = "idle"
    /\ Admits(mu, LockOf(call.op))
    /\ mu' = Acquire(mu, LockOf(call.op), t)
    /\ threads' = [threads EXCEPT ![t] = [pc |-> "body", call |-> call, base |-> cookies]]
    /\ IF call.op \in Writers
       THEN /\ Count(WriteResult(call, cookies, now)) <= MaxCookies
            /\ cookies' \in FirstWrite(call, cookies, now)
       ELSE UNCHANGED cookies
    /\ UNCHANGED <<committed, now, jarCall, tlsVars, warmVars, planVars, fastVars>>

\* the rest of the body of thread t and its deferred Unlock / RUnlock; a
\* writer leaves the jar that its method makes of the jar it found
LockEnd(t) ==
    /\ threads[t].pc = "body"
    /\ mu' = Release(mu, LockOf(threads[t].call.op), t)
    /\ threads' = [threads EXCEPT ![t] = ThreadIdle]
    /\ IF threads[t].call.op \in Writers
       THEN /\ cookies' = WriteResult(threads[t].call, threads[t].base, now)
            /\ committed' = cookies'
       ELSE UNCHANGED <<cookies, committed>>
    /\ UNCHANGED <<now, jarCall, tlsVars, warmVars, planVars, fastVars>>

LockBeginAny == \E t \in Threads, call \in LockCalls : LockBegin(t, call)

LockEndAny == \E t \in Threads : LockEnd(t)

LockNext ==
    \/ LockBeginAny
    \/ LockEndAny

SpecLockInit ==
    /\ JarInit
    /\ threads = [t \in Threads |-> ThreadIdle]
    /\ mu = [w |-> 0, r |-> {}]
    /\ committed = EmptyJar
    /\ sessions = << >>
    /\ accessOrder = << >>
    /\ tlsCall = << >>
    /\ recency = << >>
    /\ WarmIdle
    /\ PlanIdle
    /\ FastIdle

SpecLock == SpecLockInit /\ [][LockNext]_vars

\* the threads that are inside a writer and inside a reader
InWriter == {t \in Threads : threads[t].pc = "body" /\ threads[t].call.op \in Writers}
InReader == {t \in Threads : threads[t].pc = "body" /\ threads[t].call.op \in Readers}

TlsWriters == {"Get", "Put", "Import", "Clear"}

\* the lock as it would be if Get, a lookup, took the read lock
TlsLockOf_GetTakesRLock(op) ==
    IF op \in {"Get", "Export", "Count"} THEN "RLock" ELSE "Lock"

\* the lock a method of the cache takes on entry
TlsLockOf(op) ==
    CASE op = "Get" -> "Lock"
      [] op = "Put" -> "Lock"
      [] op = "Export" -> "RLock"
      [] op = "Import" -> "Lock"
      [] op = "Clear" -> "Lock"
      [] op = "Count" -> "RLock"

\* the two fields of the cache
Cache(S, order) == [sessions |-> S, accessOrder |-> order]

\* PersistableSessionCache.Export: one serialized entry per session (every
\* state of the model has a ticket and serializes)
TlsExportResult(S) == {TlsEntry(k, S[k].state, S[k].createdAt, TRUE) : k \in DOMAIN S}

\* the cache when a call returns, from the cache it found on entry
TlsCallResult(call, c, t) ==
    CASE call.op = "Get" -> TlsGetResult(c.sessions, c.accessOrder, call.args[1])
      [] call.op = "Put" -> TlsPutResult(c.sessions, c.accessOrder, call.args[1], call.args[2], t)
      [] call.op = "Import" -> TlsImportResult(c.sessions, c.accessOrder, call.args[1], t)
      [] call.op = "Clear" -> Cache(<< >>, << >>)
      [] call.op = "Export" -> c
      [] call.op = "Count" -> c

\* what a call returns, from the cache it found on entry
TlsCallReturn(call, c) ==
    CASE call.op = "Get" -> TlsGetReturn(c.sessions, call.args[1])
      [] call.op = "Export" -> <<TlsExportResult(c.sessions), Nil>>
      [] call.op = "Count" -> <<SessionCount(c.sessions)>>
      [] call.op = "Import" -> <<Nil>>
      [] call.op = "Put" -> << >>
      [] call.op = "Clear" -> << >>

\* the cache after the first write of a writer's body: moveToEnd has cut
\* the key out of accessOrder and not yet appended it; Put has stored the
\* session (or, at capacity, has popped the front of accessOrder); Import
\* has stored the first entry it loads; Clear has replaced the map
TlsFirstWrite(call, c, t) ==
    CASE call.op = "Get" ->
           IF call.args[1] \in DOMAIN c.sessions
              /\ call.args[1] \in OrderKeys(c.accessOrder)
           THEN LET moved == moveToEnd(c.accessOrder, call.args[1])
                IN  [c EXCEPT !.accessOrder = SubSeq(moved, 1, Len(moved) - 1)]
           ELSE c
      [] call.op = "Put" ->
           IF call.args[1] \notin DOMAIN c.sessions
              /\ SessionCount(c.sessions) >= TLSSessionCacheMaxSize
              /\ Len(c.accessOrder) > 0
           THEN [c EXCEPT !.accessOrder = Tail(c.accessOrder)]
           ELSE [c EXCEPT !.sessions = SessionsWith(c.sessions, call.args[1], call.args[2], t)]
      [] call.op = "Import" ->
           LET loaded == SelectSeq(call.args[1], LAMBDA e : TlsLoads(e, t))
           IN  IF loaded = << >> THEN c
               ELSE [c EXCEPT !.sessions = SessionsWith(c.sessions, loaded[1].key,
                                                        loaded[1].state, loaded[1].createdAt)]
      [] call.op = "Clear" -> [c EXCEPT !.sessions = << >>]

\* the calls made by the threads
TlsCalls ==
    {TlsCall("Get", <<1>>, << >>),
     TlsCall("Get", <<TLSSessionCacheMaxSize + 1>>, << >>),
     TlsCall("Put", <<1, 1>>, << >>),
     TlsCall("Put", <<TLSSessionCacheMaxSize + 1, 2>>, << >>),
     TlsCall("Import", <<<<TlsEntry(1, 2, TlsNow, TRUE),
                           TlsEntry(TLSSessionCacheMaxSize + 1, 1, TlsNow, TRUE)>>>>, << >>),
     TlsCall("Clear", << >>, << >>),
     TlsCall("Export", << >>, << >>),
     TlsCall("Count", << >>, << >>)}

TlsThreadIdle == [pc |-> "idle", call |-> TlsCall("none", << >>, << >>), base |-> Cache(<< >>, << >>)]

\* thread t calls a method of the cache; the lock admits it and the first
\* part of the body runs
TlsLockBegin(t, call) ==
    /\ threads[t].pc = "idle"
    /\ Admits(mu, TlsLockOf(call.op))
    /\ mu' = Acquire(mu, TlsLockOf(call.op), t)
    /\ threads' = [threads EXCEPT ![t] = [pc |-> "body", call |-> call,
                                           base |-> Cache(sessions, accessOrder)]]
    /\ IF call.op \in TlsWriters
       THEN LET first == TlsFirstWrite(call, Cache(sessions, accessOrder), now)
            IN  /\ Repeats(TlsCallResult(call, Cache(sessions, accessOrder), now).accessOrder)
                      <= MaxDup
                /\ sessions' = first.sessions
                /\ accessOrder' = first.accessOrder
       ELSE UNCHANGED <<sessions, accessOrder>>
    /\ UNCHANGED <<committed, tlsCall, recency, now, jarVars, warmVars, planVars, fastVars>>

\* the rest of the body of thread t, its return and its deferred Unlock /
\* RUnlock; a writer leaves the cache that its method makes of the cache it
\* found on entry
TlsLockEnd(t) ==
    /\ threads[t].pc = "body"
    /\ mu' = Release(mu, TlsLockOf(threads[t].call.op), t)
    /\ threads' = [threads EXCEPT ![t] = TlsThreadIdle]
    /\ tlsCall' = TlsCall(threads[t].call.op, threads[t].call.args,
                          TlsCallReturn(threads[t].call, threads[t].base))
    /\ IF threads[t].call.op \in TlsWriters
       THEN LET r == TlsCallResult(threads[t].call, threads[t].base, now)
            IN  /\ sessions' = r.sessions
                /\ accessOrder' = r.accessOrder
                /\ committed' = r
       ELSE UNCHANGED <<sessions, accessOrder, committed>>
    /\ UNCHANGED <<recency, now, jarVars, warmVars, planVars, fastVars>>

TlsLockBeginAny == \E t \in Threads, call \in TlsCalls : TlsLockBegin(t, call)

TlsLockEndAny == \E t \in Threads : TlsLockEnd(t)

TlsLockNext ==
    \/ TlsLockBeginAny
    \/ TlsLockEndAny

SpecTLSLockInit ==
    /\ TlsInit
    /\ now = TlsNow
    /\ threads = [t \in Threads |-> TlsThreadIdle]
    /\ mu = [w |-> 0, r |-> {}]
    /\ committed = Cache(<< >>, << >>)
    /\ cookies = EmptyJar
    /\ jarCall = << >>
    /\ WarmIdle
    /\ PlanIdle
    /\ FastIdle

SpecTLSLock == SpecTLSLockInit /\ [][TlsLockNext]_vars

\* the threads that are inside a writer and inside a reader of the cache
TlsInWriter == {t \in Threads : threads[t].pc = "body" /\ threads[t].call.op \in TlsWriters}
TlsInReader == {t \in Threads : threads[t].pc = "body" /\ threads[t].call.op \notin TlsWriters}

\* the number of entries of the list that hold the key
Occurrences(order, key) == Len(SelectSeq(order, LAMBDA k : k = key))

\* C33: the calls of the cache are atomic.  At most one thread is inside
\* Get, Put, Import or Clear and then none is inside Export or Count; every
\* thread inside a call has found the cache as the last completed writer
\* left it, and outside a writer the cache is in that state; when a call
\* returns, the cache and the result are those of the call made alone on
\* that state, so the calls take effect one after the other in the order
\* of their returns; a Get neither loses nor repeats a key of the LRU list
C33_CallsAreAtomic ==
    /\ [](/\ Cardinality(TlsInWriter) <= 1
          /\ TlsInWriter # {} => TlsInReader = {}
          /\ \A t \in TlsInWriter \cup TlsInReader : threads[t].base = committed
          /\ TlsInWriter = {} => Cache(sessions, accessOrder) = committed)
    /\ [][\A t \in Threads :
            (threads[t].pc = "body" /\ threads'[t].pc = "idle")
            => /\ Cache(sessions', accessOrder')
                    = TlsCallResult(threads[t].call, committed, now)
               /\ tlsCall'.ret = TlsCallReturn(threads[t].call, committed)
               /\ threads[t].call.op = "Get"
                    => \A k \in OrderKeys(accessOrder') \cup OrderKeys(committed.accessOrder) :
                          Occurrences(accessOrder', k) = Occurrences(committed.accessOrder, k)
          ]_vars

\* C33 witness: a thread is inside Get(1) on a cache of two sessions, between
\* the two writes of moveToEnd (key 1 is cut out of accessOrder and not yet
\* appended), and the two other threads are outside
C33_Witness ==
    /\ \E t \in TlsInWriter :
          /\ threads[t].call.op = "Get"
          /\ threads[t].call.args[1] = 1
          /\ \A u \in Threads \ {t} : threads[u].pc = "idle"
    /\ SessionCount(sessions) = 2
    /\ Occurrences(accessOrder, 1) = 0
    /\ Occurrences(committed.accessOrder, 1) = 1


(***************************************************************************)
(* Fast-response handles of the C bindings: httpcloak_get_fast files the   *)
(* response under the next value of fastResponseID, the accessors look the *)
(* handle up, httpcloak_fast_free frees the C memory and deletes the       *)
(* entry.  The callers are threads of the host program.  A call that takes *)
(* fastResponsesMu.Lock() is taken in two steps: with the lock it does its *)
(* first write (the counter, the first C.free), then the rest and Unlock.  *)
(***************************************************************************)
MaxHandles == 2      \* httpcloak_get_fast is not offered beyond this many successful requests
MaxCallers == 2

Callers == 1..MaxCallers

sGetFast == "httpcloak_get_fast"
sGetMeta == "httpcloak_fast_get_meta"
sGetBodyPtr == "httpcloak_fast_get_body_ptr"
sGetBodyLen == "httpcloak_fast_get_body_len"
sFastFree == "httpcloak_fast_free"

\* the lock as it would be if every function took the read lock
FastLockOf_AlwaysRLock(op) == "RLock"

\* the lock a function takes around its use of fastResponses
FastLockOf(op) ==
    CASE op = sGetFast -> "Lock"
      [] op = sFastFree -> "Lock"
      [] op = sGetMeta -> "RLock"
      [] op = sGetBodyPtr -> "RLock"
      [] op = sGetBodyLen -> "RLock"

\* C.malloc: the heap with one more block; its pointer is the new length
\* (0 is the nil pointer)
Malloc(h) == Append(h, 0)

\* C.free(p)
CFree(h, p) == [h EXCEPT ![p] = @ + 1]

\* &FastResponse{meta, body, bodyLen}
FastResponse(meta, body, bodyLen) == [meta |-> meta, body |-> body, bodyLen |-> bodyLen]

\* httpcloak_get_fast, from the malloc of meta to "Create response": the
\* heap and the response for a body of bodyLen bytes
NewFastResponse(h, bodyLen) ==
    LET h1 == Malloc(h)
        h2 == IF bodyLen > 0 THEN Malloc(h1) ELSE h1
    IN  [heap |-> h2,
         fr |-> FastResponse(Len(h1), IF bodyLen > 0 THEN Len(h2) ELSE 0, bodyLen)]

\* what an accessor returns for the handle
AccessorReturn(op, table, handle) ==
    IF handle \notin DOMAIN table
    THEN 0
    ELSE CASE op = sGetMeta -> table[handle].meta
           [] op = sGetBodyPtr -> IF table[handle].bodyLen = 0 THEN 0 ELSE table[handle].body
           [] op = sGetBodyLen -> table[handle].bodyLen

FastCall(op, args, ret) == [op |-> op, args |-> args, ret |-> ret]

CallerIdle == [pc |-> "idle", handle |-> 0, exists |-> FALSE, fr |-> FastResponse(0, 0, 0)]

\* the callers that are between the request and the end of the store
Storing == {t \in Callers : callers[t].pc \in {"store", "stored"}}

\* httpcloak_get_fast up to "Store response": the session is looked up, the
\* request is made, and on success the body is read and meta and body are
\* copied into C memory; an unknown session and a failed request return -1
FastGetFast(t, known, ok, bodyLen) ==
    /\ callers[t].pc = "idle"
    /\ IF ~known \/ ~ok
       THEN /\ fastCall' = FastCall(sGetFast, <<known, ok>>, -1)
            /\ UNCHANGED <<heap, callers>>
       ELSE LET r == NewFastResponse(heap, bodyLen)
            IN  /\ Len(issued) + Cardinality(Storing) < MaxHandles
                /\ heap' = r.heap
                /\ callers' = [callers EXCEPT ![t] = [pc |-> "store", handle |-> 0,
                                                      exists |-> FALSE, fr |-> r.fr]]
                /\ UNCHANGED fastCall
    /\ UNCHANGED <<fastResponses, fastResponseID, fastResponsesMu, issued>>
    /\ UNCHANGED <<now, jarVars, tlsVars, warmVars, planVars, lockVars>>

\* httpcloak_get_fast, "fastResponsesMu.Lock(); fastResponseID++"
FastStoreLock(t) ==
    /\ callers[t].pc = "store"
    /\ Admits(fastResponsesMu, FastLockOf(sGetFast))
    /\ fastResponsesMu' = Acquire(fastResponsesMu, FastLockOf(sGetFast), t)
    /\ fastResponseID' = fastResponseID + 1
    /\ callers' = [callers EXCEPT ![t].pc = "stored"]
    /\ UNCHANGED <<fastResponses, heap, issued, fastCall>>
    /\ UNCHANGED <<now, jarVars, tlsVars, warmVars, planVars, lockVars>>

\* httpcloak_get_fast, "id := fastResponseID; fastResponses[id] = fr;
\* fastResponsesMu.Unlock(); return C.int64_t(id)"
FastStoreUnlock(t) ==
    /\ callers[t].pc = "stored"
    /\ fastResponses' = [h \in (DOMAIN fastResponses) \cup {fastResponseID} |->
                            IF h = fastResponseID THEN callers[t].fr ELSE fastResponses[h]]
    /\ issued' = Append(issued, fastResponseID)
    /\ fastResponsesMu' = Release(fastResponsesMu, FastLockOf(sGetFast), t)
    /\ fastCall' = FastCall(sGetFast, <<TRUE, TRUE>>, fastResponseID)
    /\ callers' = [callers EXCEPT ![t] = CallerIdle]
    /\ UNCHANGED <<fastResponseID, heap>>
    /\ UNCHANGED <<now, jarVars, tlsVars, warmVars, planVars, lockVars>>

\* httpcloak_fast_get_meta, httpcloak_fast_get_body_ptr and
\* httpcloak_fast_get_body_len: the lookup under the read lock and the return
FastAccessor(t, op, handle) ==
    /\ callers[t].pc = "idle"
    /\ Admits(fastResponsesMu, FastLockOf(op))
    /\ fastCall' = FastCall(op, <<handle>>, AccessorReturn(op, fastResponses, handle))
    /\ UNCHANGED <<fastResponses, fastResponseID, fastResponsesMu, heap, callers, issued>>
    /\ UNCHANGED <<now, jarVars, tlsVars, warmVars, planVars, lockVars>>

\* httpcloak_fast_free, from Lock to the first C.free: the lookup, and for
\* a handle of the table the free of meta
FastFreeLock(t, handle) ==
    /\ callers[t].pc = "idle"
    /\ Admits(fastResponsesMu, FastLockOf(sFastFree))
    /\ fastResponsesMu' = Acquire(fastResponsesMu, FastLockOf(sFastFree), t)
    /\ IF handle \in DOMAIN fastResponses
       THEN /\ callers' = [callers EXCEPT ![t] = [pc |-> "freeing", handle |-> handle,
                                                  exists |-> TRUE, fr |-> fastResponses[handle]]]
            /\ heap' = IF fastResponses[handle].meta # 0
                       THEN CFree(heap, fastResponses[handle].meta) ELSE heap
       ELSE /\ callers' = [callers EXCEPT ![t] = [pc |-> "freeing", handle |-> handle,
                                                  exists |-> FALSE, fr |-> FastResponse(0, 0, 0)]]
            /\ UNCHANGED heap
    /\ UNCHANGED <<fastResponses, fastResponseID, issued, fastCall>>
    /\ UNCHANGED <<now, jarVars, tlsVars, warmVars, planVars, lockVars>>

\* httpcloak_fast_free, the rest: the free of body, the delete and Unlock
FastFreeUnlock(t) ==
    /\ callers[t].pc = "freeing"
    /\ IF callers[t].exists
       THEN /\ heap' = IF callers[t].fr.body # 0 THEN CFree(heap, callers[t].fr.body) ELSE heap
            /\ fastResponses' = [h \in (DOMAIN fastResponses) \ {callers[t].handle} |->
                                    fastResponses[h]]
       ELSE UNCHANGED <<heap, fastResponses>>
    /\ fastResponsesMu' = Release(fastResponsesMu, FastLockOf(sFastFree), t)
    /\ fastCall' = FastCall(sFastFree, <<callers[t].handle>>, 0)
    /\ callers' = [callers EXCEPT ![t] = CallerIdle]
    /\ UNCHANGED <<fastResponseID, issued>>
    /\ UNCHANGED <<now, jarVars, tlsVars, warmVars, planVars, lockVars>>

\* the handles passed to the accessors and to httpcloak_fast_free: -1, 0,
\* those that can be issued and one beyond
Handles == -1..(MaxHandles + 1)

FastGetFastAny ==
    \E t \in Callers, known \in BOOLEAN, ok \in BOOLEAN, bodyLen \in {0, 2} :
       FastGetFast(t, known, ok, bodyLen)
FastStoreLockAny == \E t \in Callers : FastStoreLock(t)
FastStoreUnlockAny == \E t \in Callers : FastStoreUnlock(t)
FastAccessorAny ==
    \E t \in Callers, op \in {sGetMeta, sGetBodyPtr, sGetBodyLen}, h \in Handles :
       FastAccessor(t, op, h)
FastFreeLockAny == \E t \in Callers, h \in Handles : FastFreeLock(t, h)
FastFreeUnlockAny == \E t \in Callers : FastFreeUnlock(t)

FastNext ==
    \/ FastGetFastAny
    \/ FastStoreLockAny
    \/ FastStoreUnlockAny
    \/ FastAccessorAny
    \/ FastFreeLockAny
    \/ FastFreeUnlockAny

SpecFastInit ==
    /\ fastResponses = << >>
    /\ fastResponseID = 0
    /\ fastResponsesMu = [w |-> 0, r |-> {}]
    /\ heap = << >>
    /\ callers = [t \in Callers |-> CallerIdle]
    /\ issued = << >>
    /\ fastCall = FastCall("none", << >>, 0)
    /\ now = 1
    /\ cookies = EmptyJar
    /\ jarCall = << >>
    /\ sessions = << >>
    /\ accessOrder = << >>
    /\ tlsCall = << >>
    /\ recency = << >>
    /\ WarmIdle
    /\ PlanIdle
    /\ LockIdle

SpecFast == SpecFastInit /\ [][FastNext]_vars

\* the step is the return of an accessor, of a failed httpcloak_get_fast,
\* of the call of httpcloak_fast_free made by caller t
AccessorReturns ==
    callers' = callers /\ fastCall'.op \in {sGetMeta, sGetBodyPtr, sGetBodyLen}
GetFastFails == callers' = callers /\ fastCall'.op = sGetFast /\ fastCall'.ret = -1
FreeReturns(t) == callers[t].pc = "freeing" /\ callers'[t].pc = "idle"
FreeEnters(t) == callers[t].pc = "idle" /\ callers'[t].pc = "freeing"

\* C40: the handles given out are positive and each is greater than all
\* given out before, so none is given out twice, whatever the interleaving
\* of the callers; a call of httpcloak_get_fast that fails or names an
\* unknown session returns -1 and changes neither the table nor the C heap;
\* when httpcloak_fast_free(h) has returned, h is not in the table, it never
\* comes back, and the accessors return nil / 0 for every handle that is
\* not in the table; httpcloak_fast_free of a handle that is not in the
\* table changes nothing, and no block of C memory is freed twice
C40_FastHandles ==
    /\ [](/\ \A i \in 1..Len(issued) :
                /\ issued[i] > 0
                /\ \A k \in 1..(i - 1) : issued[k] < issued[i]
          /\ DOMAIN fastResponses \subseteq Range(issued)
          /\ \A p \in 1..Len(heap) : heap[p] <= 1
          /\ \A h \in DOMAIN fastResponses :
                /\ \/ heap[fastResponses[h].meta] = 0
                   \/ \E t \in Callers : /\ callers[t].pc = "freeing"
                                          /\ callers[t].exists
                                          /\ callers[t].handle = h
                /\ fastResponses[h].body # 0
                     => heap[fastResponses[h].body] = 0)
    /\ [][/\ GetFastFails
             => fastResponses' = fastResponses /\ heap' = heap /\ issued' = issued
          /\ AccessorReturns
             => /\ fastCall'.args[1] \notin DOMAIN fastResponses => fastCall'.ret = 0
                /\ fastCall'.args[1] \in DOMAIN fastResponses
                     => fastCall'.ret = (CASE fastCall'.op = sGetMeta ->
                                                 fastResponses[fastCall'.args[1]].meta
                                           [] fastCall'.op = sGetBodyPtr ->
                                                 fastResponses[fastCall'.args[1]].body
                                           [] fastCall'.op = sGetBodyLen ->
                                                 fastResponses[fastCall'.args[1]].bodyLen)
          /\ \A t \in Callers :
                /\ FreeReturns(t)
                     => /\ callers[t].handle \notin DOMAIN fastResponses'
                        /\ \A h \in DOMAIN fastResponses :
                              h # callers[t].handle
                              => h \in DOMAIN fastResponses' /\ fastResponses'[h] = fastResponses[h]
                /\ (FreeEnters(t) /\ callers'[t].handle \notin DOMAIN fastResponses)
                     => heap' = heap /\ fastResponses' = fastResponses
                /\ (FreeReturns(t) /\ callers[t].handle \notin DOMAIN fastResponses)
                     => heap' = heap /\ fastResponses' = fastResponses
          /\ \A h \in Range(issued) :
                h \notin DOMAIN fastResponses => h \notin DOMAIN fastResponses'
         ]_vars

\* C40 witness: two handles were given out, handle 1 was freed (its two
\* blocks of C memory once each), httpcloak_fast_get_meta(1) has just
\* returned nil, and handle 2 is still in the table
C40_Witness ==
    /\ issued = <<1, 2>>
    /\ DOMAIN fastResponses = {2}
    /\ fastCall = FastCall(sGetMeta, <<1>>, 0)
    /\ \E p, q \in 1..Len(heap) : p # q /\ heap[p] = 1 /\ heap[q] = 1
====
